---- MODULE Spec2Model ----
(***************************************************************************)
(* Verification model of claude-code.graph: the clusterer                  *)
(* (GraphClustering), the query engine (GraphService / GraphTool), the     *)
(* daemon control commands (GraphCommands / GraphTool), the snapshot       *)
(* writer, the scheduler and the store of the daemon, and the extractor    *)
(* (FastTreeSitter).  Each subsystem has its own specification; the        *)
(* variables of the other subsystems stay at their initial value under it. *)
(***************************************************************************)
EXTENDS Integers, Sequences, FiniteSets, TLC

VARIABLES graphData, options, superGraph,   \* the clusterer
          graphFiles, graphs, cycles,         \* the query engine
          initialized, cache, related,
          lockFile, procs, nextPid, clients,  \* the daemon and its commands
          disk, writer, observed,             \* the artifacts on disk
          fsContent, pending, quiet, batches, store, extracted, log,
          eventCount, formed,                 \* the scheduler and the store
          hotPaths,                           \* the answer to /hot-paths
          parseInput, parseResult,            \* the extractor's call and its result
          commandsInitialized, commandResult, \* the command API
          detect,                             \* community detection, pass by pass
          job,                                \* a call of batchProcess
          interceptor, intercepted,           \* the tool interceptor and its last call
          todos, monitor, checks, forwarded   \* the todo monitor

clusterVars == <<graphData, options, superGraph>>

cycleVars == <<graphFiles, graphs, cycles>>

relatedVars == <<initialized, cache, related>>

daemonVars == <<lockFile, procs, nextPid, clients>>

saveVars == <<disk, writer, observed>>

storeVars == <<fsContent, pending, quiet, batches, store, extracted, log,
               eventCount, formed>>

(***************************************************************************)
(* Generic helpers for JavaScript collections.  A JS Set / Map keeps       *)
(* insertion order, so both are modelled as duplicate-free sequences.      *)
(***************************************************************************)
\* True of every value.  A loop that carries a value from step to step
\* states it of the value carried, which has each step's value computed
\* when the step is taken, as the code computes it.
Evaluated(x) == x = x

Range(s) == {s[i] : i \in 1..Len(s)}

AddUnique(s, x) == IF x \in Range(s) THEN s ELSE Append(s, x)

Min(a, b) == IF a < b THEN a ELSE b

Max(a, b) == IF a > b THEN a ELSE b

\* Math.ceil(a / b) for a >= 0, b > 0
CeilDiv(a, b) == (a + b - 1) \div b

\* String.prototype.includes on character sequences
Includes(s, t) ==
    \E k \in 0..(Len(s) - Len(t)) : SubSeq(s, k + 1, k + Len(t)) = t

\* String.prototype.endsWith
EndsWith(s, t) ==
    /\ Len(t) <= Len(s)
    /\ SubSeq(s, Len(s) - Len(t) + 1, Len(s)) = t

\* Position of the last "/" of a path, 0 when there is none
RECURSIVE LastSlash(_, _)
LastSlash(p, i) ==
    IF i = 0 THEN 0 ELSE IF p[i] = "/" THEN i ELSE LastSlash(p, i - 1)

\* Position of the first occurrence of character c at or after i, Len+1 if none
RECURSIVE FirstChar(_, _, _)
FirstChar(p, c, i) ==
    IF i > Len(p) THEN Len(p) + 1
    ELSE IF p[i] = c THEN i ELSE FirstChar(p, c, i + 1)

\* node.split('/').pop().split('.')[0]
BaseName(p) ==
    LET last == SubSeq(p, LastSlash(p, Len(p)) + 1, Len(p))
    IN  SubSeq(last, 1, FirstChar(last, ".", 1) - 1)

(***************************************************************************)
(* Bounds of the clusterer's inputs.                                       *)
(***************************************************************************)
MaxFiles == 12

Letters == <<"a", "b", "c", "d", "e", "f", "g", "h", "i", "j", "k", "l", "m",
             "n", "o", "p", "q", "r", "s", "t", "u", "v">>

\* The path of the i-th file: file 1 is top-level, the others live in the
\* directories s/x and s/y.
Path(i) ==
    IF i = 1 THEN <<Letters[1]>>
    ELSE <<"s", "/", (IF i % 3 = 0 THEN "y" ELSE "x"), "/", Letters[i]>>

NoFile == <<>>

\* An import of a module that is no file of the repository
ExternalTarget == <<"z", "z">>

\* An unresolved module name that names file 2 by its base name
ModuleTarget == <<Letters[2]>>

(***************************************************************************)
(* GraphClustering.buildAdjacencyGraph and resolveEdgeTarget               *)
(***************************************************************************)
\* First node, in insertion order, that the substring heuristic matches
RECURSIVE FirstMatch(_, _, _)
FirstMatch(target, nodes, i) ==
    IF i > Len(nodes) THEN NoFile
    ELSE IF Includes(nodes[i], target) \/ Includes(target, BaseName(nodes[i]))
         THEN nodes[i]
         ELSE FirstMatch(target, nodes, i + 1)

resolveEdgeTarget(target, nodes) ==
    IF target \in Range(nodes) THEN target ELSE FirstMatch(target, nodes, 1)

\* graphData.nodes.forEach(node => { if (node.file) nodes.add(node.file) })
RECURSIVE CollectNodes(_, _, _)
CollectNodes(list, i, acc) ==
    IF Evaluated(acc) /\ i > Len(list) THEN acc
    ELSE CollectNodes(list, i + 1,
                      IF list[i] # NoFile THEN AddUnique(acc, list[i]) ELSE acc)

\* graphData.edges.forEach(...): undirected adjacency sets
RECURSIVE CollectEdges(_, _, _, _)
CollectEdges(list, nodes, i, adj) ==
    IF Evaluated(adj) /\ i > Len(list) THEN adj
    ELSE LET from == list[i].from
             to   == resolveEdgeTarget(list[i].to, nodes)
         IN  IF /\ from # NoFile /\ to # NoFile
                /\ from \in Range(nodes) /\ to \in Range(nodes)
                /\ from # to
             THEN CollectEdges(list, nodes, i + 1,
                    [adj EXCEPT ![from] = AddUnique(@, to),
                                ![to]   = AddUnique(adj[to], from)])
             ELSE CollectEdges(list, nodes, i + 1, adj)

buildAdjacencyGraph(gd) ==
    LET nodes == CollectNodes(gd.nodes, 1, <<>>)
    IN  [nodes |-> nodes,
         edges |-> CollectEdges(gd.edges, nodes, 1,
                                [n \in Range(nodes) |-> <<>>])]

(***************************************************************************)
(* GraphClustering.detectCommunities (simplified Louvain)                  *)
(***************************************************************************)
maxIterations == 10

\* The resolution option as a fraction ResNum / ResDen (default 1.0)
ResNum == 1

ResDen == 1

\* calculateCommunityScore, as the number of internal edges; the caller
\* compares two scores of the same node, which share the divisor
\* neighbors.size
InternalEdges(node, communityId, communities, graph) ==
    Cardinality({k \in 1..Len(graph.edges[node]) :
                    communities[graph.edges[node][k]] = communityId})

\* communityScores: neighbour communities other than the current one, in
\* the order the Map first saw them, with the number of neighbours in each
RECURSIVE ScoreNeighbors(_, _, _, _, _)
ScoreNeighbors(neighbors, current, communities, k, acc) ==
    IF Evaluated(acc) /\ k > Len(neighbors) THEN acc
    ELSE LET c == communities[neighbors[k]]
         IN  ScoreNeighbors(neighbors, current, communities, k + 1,
                            IF c # current THEN AddUnique(acc, c) ELSE acc)

\* [...communityScores.entries()].sort((a, b) => b[1] - a[1])[0][0]:
\* the first key, in insertion order, with the greatest score
BestCommunity(keys, node, communities, graph) ==
    LET score(c) == InternalEdges(node, c, communities, graph)
        best == CHOOSE k \in 1..Len(keys) :
                  /\ \A j \in 1..Len(keys) : score(keys[j]) <= score(keys[k])
                  /\ \A j \in 1..(k - 1) : score(keys[j]) < score(keys[k])
    IN  keys[best]

\* newScore > currentScore * resolution
Beneficial(newInternal, currentInternal) ==
    newInternal * ResDen > currentInternal * ResNum

\* One visit of a node inside the for loop: the community it ends up in
MoveNode(node, communities, graph) ==
    LET current == communities[node]
        keys == ScoreNeighbors(graph.edges[node], current, communities, 1, <<>>)
    IN  IF Len(keys) = 0 THEN current
        ELSE LET best == BestCommunity(keys, node, communities, graph)
             IN  IF Beneficial(InternalEdges(node, best, communities, graph),
                               InternalEdges(node, current, communities, graph))
                 THEN best ELSE current

\* The body of the for loop for the i-th node; st = [c, improved]
VisitNode(graph, i, st) ==
    LET node == graph.nodes[i]
        to == MoveNode(node, st.c, graph)
    IN  IF to # st.c[node]
        THEN [c |-> [st.c EXCEPT ![node] = to], improved |-> TRUE]
        ELSE st

\* for (const node of graph.nodes): one full pass
RECURSIVE FullPass(_, _, _)
FullPass(graph, i, st) ==
    IF Evaluated(st) /\ i > Len(graph.nodes) THEN st
    ELSE FullPass(graph, i + 1, VisitNode(graph, i, st))

\* A loop that goes on to the last iteration whether or not a node moved
LoopContinuesToCap(improved, iteration) == iteration < maxIterations

\* while (improved && iteration < maxIterations)
LoopContinues(improved, iteration) == improved /\ iteration < maxIterations

RECURSIVE LouvainLoop(_, _, _, _)
LouvainLoop(graph, communities, improved, iteration) ==
    IF Evaluated(communities) /\ LoopContinues(improved, iteration)
    THEN LET st == FullPass(graph, 1, [c |-> communities, improved |-> FALSE])
         IN  LouvainLoop(graph, st.c, st.improved, iteration + 1)
    ELSE [c |-> communities, improved |-> improved, iteration |-> iteration]

\* Position of a node in graph.nodes
IndexOf(s, x) == CHOOSE i \in 1..Len(s) : s[i] = x

\* groupCommunitiesById: community id -> files, both in insertion order
RECURSIVE groupCommunitiesById(_, _, _, _)
groupCommunitiesById(nodes, communities, i, acc) ==
    IF Evaluated(acc) /\ i > Len(nodes) THEN acc
    ELSE LET id == communities[nodes[i]]
             at == {k \in 1..Len(acc) : acc[k].id = id}
         IN  groupCommunitiesById(nodes, communities, i + 1,
               IF at = {}
               THEN Append(acc, [id |-> id, files |-> <<nodes[i]>>])
               ELSE LET k == CHOOSE k \in at : TRUE
                    IN  [acc EXCEPT ![k].files = Append(@, nodes[i])])

detectCommunities(graph) ==
    LET init == [n \in Range(graph.nodes) |-> IndexOf(graph.nodes, n) - 1]
        done == LouvainLoop(graph, init, TRUE, 0)
    IN  groupCommunitiesById(graph.nodes, done.c, 1, <<>>)

(***************************************************************************)
(* GraphClustering.fallbackToDirectoryClustering                           *)
(***************************************************************************)
\* String.prototype.split('/')
RECURSIVE Split(_, _, _, _)
Split(p, i, cur, acc) ==
    IF i > Len(p) THEN Append(acc, cur)
    ELSE IF p[i] = "/" THEN Split(p, i + 1, <<>>, Append(acc, cur))
         ELSE Split(p, i + 1, Append(cur, p[i]), acc)

\* node.replace(/^\.\//, '')
StripDotSlash(p) ==
    IF Len(p) >= 2 /\ p[1] = "." /\ p[2] = "/" THEN SubSeq(p, 3, Len(p)) ELSE p

\* pathParts.slice(0, Math.min(2, pathParts.length)).join('.')
DirKey(node) ==
    LET parts == Split(StripDotSlash(node), 1, <<>>, <<>>)
    IN  IF Len(parts) = 1 THEN parts[1] ELSE parts[1] \o <<".">> \o parts[2]

RECURSIVE GroupByDirKey(_, _, _)
GroupByDirKey(nodes, i, acc) ==
    IF Evaluated(acc) /\ i > Len(nodes) THEN acc
    ELSE LET id == DirKey(nodes[i])
             at == {k \in 1..Len(acc) : acc[k].id = id}
         IN  GroupByDirKey(nodes, i + 1,
               IF at = {}
               THEN Append(acc, [id |-> id, files |-> <<nodes[i]>>])
               ELSE LET k == CHOOSE k \in at : TRUE
                    IN  [acc EXCEPT ![k].files = Append(@, nodes[i])])

fallbackToDirectoryClustering(graph) == GroupByDirKey(graph.nodes, 1, <<>>)

(***************************************************************************)
(* GraphClustering.optimizeClusters and mergeToTarget                      *)
(***************************************************************************)
\* Insert e into a list sorted by size descending, after its equals
\* (Array.prototype.sort is stable)
RECURSIVE InsertBySize(_, _, _)
InsertBySize(sorted, e, i) ==
    IF i > Len(sorted) THEN Append(sorted, e)
    ELSE IF Len(sorted[i].files) < Len(e.files)
         THEN SubSeq(sorted, 1, i - 1) \o <<e>> \o SubSeq(sorted, i, Len(sorted))
         ELSE InsertBySize(sorted, e, i + 1)

\* [...communities.entries()].sort((a, b) => b[1].length - a[1].length)
RECURSIVE SortBySize(_, _, _)
SortBySize(list, i, acc) ==
    IF Evaluated(acc) /\ i > Len(list) THEN acc
    ELSE SortBySize(list, i + 1, InsertBySize(acc, list[i], 1))

RECURSIVE Flatten(_, _, _)
Flatten(list, i, acc) ==
    IF Evaluated(acc) /\ i > Len(list) THEN acc
    ELSE Flatten(list, i + 1, acc \o list[i].files)

ClusterId(n) == [kind |-> "c", n |-> n]

MiscId == [kind |-> "misc", n |-> 0]

\* mergeToTarget that keeps every community as a cluster of its own
mergeToTargetKeepAll(sortedCommunities, targetClusters, minClusterSize) ==
    [k \in 1..Len(sortedCommunities) |->
       [id |-> ClusterId(k - 1), files |-> sortedCommunities[k].files]]

mergeToTarget(sortedCommunities, targetClusters, minClusterSize) ==
    LET cut  == Min(Max(targetClusters - 1, 0), Len(sortedCommunities))
        main == [k \in 1..cut |->
                   [id |-> ClusterId(k - 1), files |-> sortedCommunities[k].files]]
        miscFiles == Flatten(sortedCommunities, cut + 1, <<>>)
    IN  IF Len(miscFiles) > 0
        THEN Append(main, [id |-> MiscId, files |-> miscFiles])
        ELSE main

\* The standard loop of optimizeClusters; st = [optimized, miscFiles]
RECURSIVE StandardLoop(_, _, _, _, _)
StandardLoop(sorted, i, maxClusters, minClusterSize, st) ==
    IF Evaluated(st) /\ i > Len(sorted) THEN st
    ELSE StandardLoop(sorted, i + 1, maxClusters, minClusterSize,
           IF /\ Len(sorted[i].files) >= minClusterSize
              /\ Len(st.optimized) < maxClusters - 1
           THEN [st EXCEPT !.optimized =
                   Append(@, [id |-> ClusterId(Len(st.optimized)),
                              files |-> sorted[i].files])]
           ELSE [st EXCEPT !.miscFiles = @ \o sorted[i].files])

\* optimizeClusters with the small communities dropped instead of absorbed
\* into misc
optimizeClustersDropSmall(communities, targetClusters, maxClusters, minClusterSize) ==
    LET sortedCommunities == SortBySize(communities, 1, <<>>)
    IN  IF Len(sortedCommunities) > maxClusters
        THEN mergeToTarget(sortedCommunities, targetClusters, minClusterSize)
        ELSE StandardLoop(sortedCommunities, 1, maxClusters, minClusterSize,
                          [optimized |-> <<>>, miscFiles |-> <<>>]).optimized

optimizeClusters(communities, targetClusters, maxClusters, minClusterSize) ==
    LET sortedCommunities == SortBySize(communities, 1, <<>>)
    IN  IF Len(sortedCommunities) > maxClusters
        THEN mergeToTarget(sortedCommunities, targetClusters, minClusterSize)
        ELSE LET st == StandardLoop(sortedCommunities, 1, maxClusters,
                                    minClusterSize,
                                    [optimized |-> <<>>, miscFiles |-> <<>>])
             IN  IF Len(st.miscFiles) > 0
                 THEN Append(st.optimized, [id |-> MiscId, files |-> st.miscFiles])
                 ELSE st.optimized

(***************************************************************************)
(* GraphClustering.buildSuperGraph, createFullGraphSuperGraph and          *)
(* generateSuperGraph                                                      *)
(***************************************************************************)
NoCluster == [kind |-> "none", n |-> 0]

\* nodeToCluster.get(file): later entries of the Map overwrite earlier ones
NodeToCluster(file, clusters) ==
    LET at == {k \in 1..Len(clusters) : file \in Range(clusters[k].files)}
    IN  IF at = {} THEN NoCluster
        ELSE clusters[CHOOSE k \in at : \A j \in at : j <= k].id

\* findClusterForFile: the first cluster whose fileList includes the file
findClusterForFile(file, clusters) ==
    LET at == {k \in 1..Len(clusters) : file \in Range(clusters[k].files)}
    IN  IF at = {} THEN NoCluster
        ELSE clusters[CHOOSE k \in at : \A j \in at : k <= j].id

\* A weight that is set to 1 and never raised
BumpEdgeOnce(acc, from, to) ==
    LET at == {k \in 1..Len(acc) : acc[k].from = from /\ acc[k].to = to}
    IN  IF at = {} THEN Append(acc, [from |-> from, to |-> to, weight |-> 1])
        ELSE acc

\* edgeWeights.set(edgeKey, (edgeWeights.get(edgeKey) || 0) + 1)
BumpEdge(acc, from, to) ==
    LET at == {k \in 1..Len(acc) : acc[k].from = from /\ acc[k].to = to}
    IN  IF at = {} THEN Append(acc, [from |-> from, to |-> to, weight |-> 1])
        ELSE LET k == CHOOSE k \in at : TRUE
             IN  [acc EXCEPT ![k].weight = @ + 1]

RECURSIVE SuperEdges(_, _, _, _, _)
SuperEdges(edges, clusters, nodes, i, acc) ==
    IF Evaluated(acc) /\ i > Len(edges) THEN acc
    ELSE LET fromCluster == NodeToCluster(edges[i].from, clusters)
             toFile == resolveEdgeTarget(edges[i].to, nodes)
             toCluster == IF toFile # NoFile THEN NodeToCluster(toFile, clusters)
                          ELSE NoCluster
         IN  SuperEdges(edges, clusters, nodes, i + 1,
               IF /\ fromCluster # NoCluster /\ toCluster # NoCluster
                  /\ fromCluster # toCluster
               THEN BumpEdge(acc, fromCluster, toCluster)
               ELSE acc)

buildSuperGraph(communities, graph, originalData) ==
    [status   |-> "ok",
     strategy |-> "clustered",
     clusters |-> communities,
     edges    |-> SuperEdges(originalData.edges, communities, graph.nodes, 1, <<>>),
     totalFiles |-> Len(graph.nodes)]

FileCluster(n) == [kind |-> "f", n |-> n]

RECURSIVE FullGraphEdges(_, _, _, _)
FullGraphEdges(edges, clusters, i, acc) ==
    IF Evaluated(acc) /\ i > Len(edges) THEN acc
    ELSE LET fromCluster == findClusterForFile(edges[i].from, clusters)
             toCluster == findClusterForFile(edges[i].to, clusters)
         IN  FullGraphEdges(edges, clusters, i + 1,
               IF /\ fromCluster # NoCluster /\ toCluster # NoCluster
                  /\ fromCluster # toCluster
               THEN Append(acc, [from |-> fromCluster, to |-> toCluster,
                                 weight |-> 1])
               ELSE acc)

\* The method ends in `return this.saveSuperGraph(superGraph)`, and the
\* class defines no saveSuperGraph: the call throws a TypeError after the
\* super-graph object has been built.
createFullGraphSuperGraph(gd, graph) ==
    LET clusters == [k \in 1..Len(graph.nodes) |->
                       [id |-> FileCluster(k - 1), files |-> <<graph.nodes[k]>>]]
    IN  [status   |-> "threw",
         strategy |-> "full_graph",
         clusters |-> clusters,
         edges    |-> FullGraphEdges(gd.edges, clusters, 1, <<>>),
         totalFiles |-> Len(graph.nodes)]

MinTargetClusters == 5

ClusterCap == 50

TargetClusters(n, targetReduction) ==
    Max(CeilDiv(n, targetReduction), MinTargetClusters)

MaxClusters(targetClusters) == Min(targetClusters * 2, ClusterCap)

generateSuperGraph(gd, opts) ==
    LET graph == buildAdjacencyGraph(gd)
        n == Len(graph.nodes)
        targetClusters == TargetClusters(n, opts.targetReduction)
        maxClusters == MaxClusters(targetClusters)
    IN  IF n < opts.smallProjectThreshold
        THEN createFullGraphSuperGraph(gd, graph)
        ELSE buildSuperGraph(
               optimizeClusters(detectCommunities(graph), targetClusters,
                                maxClusters, opts.minClusterSize),
               graph, gd)

(***************************************************************************)
(* Specification of the clusterer: one call of generateSuperGraph on an    *)
(* input drawn from a bounded family of graphs and options.                *)
(***************************************************************************)
DefaultTargetReduction == 100

DefaultMinClusterSize == 2

DefaultSmallProjectThreshold == 20

\* An explicit smallProjectThreshold option below the default, so that
\* inputs of at most MaxFiles files reach community detection
LowSmallProjectThreshold == 4

\* Edges among the first three files (both directions), an import of an
\* external module, an unresolved module name, and one edge per pair of
\* files (4,5), (6,7), ...
DenseEdges ==
    <<[from |-> 1, to |-> Path(2), needs |-> 2],
      [from |-> 2, to |-> Path(3), needs |-> 3],
      [from |-> 3, to |-> Path(1), needs |-> 3],
      [from |-> 2, to |-> Path(1), needs |-> 2],
      [from |-> 1, to |-> ExternalTarget, needs |-> 1],
      [from |-> 3, to |-> ModuleTarget, needs |-> 3]>>

PairEdges(n) ==
    [k \in 1..((n - 3) \div 2) |->
       [from |-> 2 * k + 2, to |-> Path(2 * k + 3), needs |-> 2 * k + 3]]

EdgeCandidates(n) ==
    SelectSeq(DenseEdges, LAMBDA e : e.needs <= n) \o
    (IF n >= 5 THEN PairEdges(n) ELSE <<>>)

\* The candidates whose index is in chosen, in candidate order
RECURSIVE PickEdges(_, _, _, _)
PickEdges(cand, chosen, i, acc) ==
    IF i > Len(cand) THEN acc
    ELSE PickEdges(cand, chosen, i + 1,
                   IF i \in chosen
                   THEN Append(acc, [from |-> Path(cand[i].from), to |-> cand[i].to])
                   ELSE acc)

\* graphData.nodes: one entry per file; with dup, the first file is listed
\* a second time (it occurs in two language graphs) next to an entry that
\* has no file attribute
NodeList(n, dup) ==
    [k \in 1..n |-> Path(k)] \o (IF dup /\ n > 0 THEN <<Path(1), NoFile>> ELSE <<>>)

OptionSets ==
    [targetReduction : {DefaultTargetReduction},
     minClusterSize : {DefaultMinClusterSize},
     smallProjectThreshold : {DefaultSmallProjectThreshold,
                              LowSmallProjectThreshold}]

NotRun == [status |-> "none"]

\* Two triangles of files, 1 to 3 and 4 to 6
TriangleEdges ==
    <<[from |-> 1, to |-> Path(2)], [from |-> 2, to |-> Path(3)],
      [from |-> 3, to |-> Path(1)], [from |-> 4, to |-> Path(5)],
      [from |-> 5, to |-> Path(6)], [from |-> 6, to |-> Path(4)]>>

\* Edges between the triangles: two one way (one of them listed twice), one
\* the other way
BridgeEdges ==
    <<[from |-> 3, to |-> Path(4)], [from |-> 2, to |-> Path(5)],
      [from |-> 3, to |-> Path(4)], [from |-> 5, to |-> Path(1)]>>

BridgedFiles == 6

\* Twenty files (the default small-project threshold), the first k pairs
\* (1,2), (3,4), ... of which are joined by an import
PairedFiles == 20

PairedEdges(k) == [j \in 1..k |-> [from |-> Path(2 * j - 1), to |-> Path(2 * j)]]

ClusterInit ==
    /\ \/ \E n \in 0..MaxFiles, dup \in BOOLEAN :
            \E chosen \in SUBSET (1..Len(EdgeCandidates(n))) :
               graphData = [nodes |-> NodeList(n, dup),
                            edges |-> PickEdges(EdgeCandidates(n), chosen, 1, <<>>)]
       \/ \E chosen \in SUBSET (1..Len(BridgeEdges)) :
            graphData = [nodes |-> NodeList(BridgedFiles, FALSE),
                         edges |-> PickEdges(TriangleEdges \o BridgeEdges,
                                             (1..Len(TriangleEdges)) \cup
                                               {Len(TriangleEdges) + k : k \in chosen},
                                             1, <<>>)]
       \/ \E k \in 0..(PairedFiles \div 2) :
            graphData = [nodes |-> NodeList(PairedFiles, FALSE),
                         edges |-> PairedEdges(k)]
    /\ options \in OptionSets
    /\ superGraph = NotRun

GenerateSuperGraph ==
    /\ superGraph = NotRun
    /\ superGraph' = generateSuperGraph(graphData, options)
    /\ UNCHANGED <<graphData, options>>

hotVars == <<hotPaths>>

parseVars == <<parseInput, parseResult>>

commandVars == <<commandsInitialized, commandResult>>

detectVars == <<detect>>

batchProcessVars == <<job>>

interceptVars == <<interceptor, intercepted>>

todoVars == <<todos, monitor, checks, forwarded>>

vars == <<clusterVars, cycleVars, relatedVars, daemonVars, saveVars, storeVars,
          hotVars, parseVars,
          commandVars,
          detectVars,
          batchProcessVars,
          interceptVars,
          todoVars>>

ClusterIdle ==
    /\ graphData = [nodes |-> <<>>, edges |-> <<>>]
    /\ options = [targetReduction |-> DefaultTargetReduction,
                  minClusterSize |-> DefaultMinClusterSize,
                  smallProjectThreshold |-> DefaultSmallProjectThreshold]
    /\ superGraph = NotRun

(***************************************************************************)
(* Properties of the clusterer                                             *)
(***************************************************************************)
\* The file-node set of the input: the distinct file attributes
FileNodeSet == {graphData.nodes[i] : i \in 1..Len(graphData.nodes)} \ {NoFile}

\* The places (cluster, position) at which a file is listed
PlacesOf(f, clusters) ==
    UNION {{<<k, j>> : j \in {i \in 1..Len(clusters[k].files) :
                                  clusters[k].files[i] = f}} :
           k \in 1..Len(clusters)}

IsPartition(clusters, files) ==
    /\ \A f \in files : Cardinality(PlacesOf(f, clusters)) = 1
    /\ \A k \in 1..Len(clusters) : Range(clusters[k].files) \subseteq files
    /\ \A k \in 1..Len(clusters) : clusters[k].files # <<>>

\* What generateSuperGraph would cluster had community detection thrown:
\* the directory fallback, shaped by optimizeClusters
DirectoryClusters ==
    LET graph == buildAdjacencyGraph(graphData)
        t == TargetClusters(Len(graph.nodes), options.targetReduction)
    IN  optimizeClusters(fallbackToDirectoryClustering(graph), t, MaxClusters(t),
                         options.minClusterSize)

\* C1: every clustering the clusterer builds (the per-file clusters of the
\* small-project shortcut, the shaped Louvain communities, the shaped
\* directory fallback) is a partition of the file-node set: each file node
\* is listed exactly once, in exactly one cluster, and nothing else is listed.
ClustersPartitionFiles ==
    /\ superGraph # NotRun => IsPartition(superGraph.clusters, FileNodeSet)
    /\ IsPartition(DirectoryClusters, FileNodeSet)

\* C1 witness: community detection ran on an input that lists a file twice
\* and the result has a multi-member cluster next to a misc cluster
ClustersPartitionFilesWitness ==
    /\ superGraph # NotRun
    /\ superGraph.strategy = "clustered"
    /\ Len(graphData.nodes) > Cardinality(FileNodeSet)
    /\ \E k \in 1..Len(superGraph.clusters) :
          superGraph.clusters[k].id = MiscId /\ Len(superGraph.clusters[k].files) > 1
    /\ \E k \in 1..Len(superGraph.clusters) :
          superGraph.clusters[k].id = ClusterId(0) /\ Len(superGraph.clusters[k].files) > 1

(***************************************************************************)
(* graphlib's directed Graph as GraphService uses it.  nodes() and         *)
(* outEdges() enumerate in insertion order; setEdge creates the endpoints  *)
(* it does not know, without a label.                                      *)
(***************************************************************************)
EmptyGraph == [nodes |-> <<>>, edges |-> <<>>]

NodeIds(g) == {g.nodes[i].id : i \in 1..Len(g.nodes)}

\* graph.setNode(id, label)
setNode(g, id, file) ==
    LET at == {i \in 1..Len(g.nodes) : g.nodes[i].id = id}
        n == [id |-> id, labelled |-> TRUE, file |-> file]
    IN  IF at = {} THEN [g EXCEPT !.nodes = Append(@, n)]
        ELSE [g EXCEPT !.nodes[CHOOSE i \in at : TRUE] = n]

\* The endpoint a setEdge has to create
EnsureNode(g, id) ==
    IF id \in NodeIds(g) THEN g
    ELSE [g EXCEPT !.nodes =
            Append(@, [id |-> id, labelled |-> FALSE, file |-> NoFile])]

\* graph.setEdge(v, w, label)
setEdge(g, v, w, type) ==
    LET g2 == EnsureNode(EnsureNode(g, v), w)
        at == {i \in 1..Len(g2.edges) : g2.edges[i].v = v /\ g2.edges[i].w = w}
        e == [v |-> v, w |-> w, type |-> type]
    IN  IF at = {} THEN [g2 EXCEPT !.edges = Append(@, e)]
        ELSE [g2 EXCEPT !.edges[CHOOSE i \in at : TRUE] = e]

\* graph.outEdges(v) || []
outEdges(g, v) == SelectSeq(g.edges, LAMBDA e : e.v = v)

\* graph.inEdges(v) || []
inEdges(g, v) == SelectSeq(g.edges, LAMBDA e : e.w = v)

(***************************************************************************)
(* GraphService.parseJsonGraph: the {nodes, edges} format and the format   *)
(* of madge, an object from each module to the list of its dependencies    *)
(***************************************************************************)
\* for (const node of data.nodes) graph.setNode(node.id, node)
RECURSIVE ParseNodes(_, _, _)
ParseNodes(list, i, g) ==
    IF Evaluated(g) /\ i > Len(list) THEN g
    ELSE ParseNodes(list, i + 1, setNode(g, list[i].id, list[i].file))

\* type: edge.type || 'unknown'
RECURSIVE ParseEdges(_, _, _)
ParseEdges(list, i, g) ==
    IF Evaluated(g) /\ i > Len(list) THEN g
    ELSE ParseEdges(list, i + 1,
                    setEdge(g, list[i].from, list[i].to,
                            IF list[i].type = "" THEN "unknown" ELSE list[i].type))

\* dependencies.forEach: the dependency becomes a node and the target of
\* an edge of type 'import'
RECURSIVE ParseDependencies(_, _, _, _)
ParseDependencies(source, deps, i, g) ==
    IF Evaluated(g) /\ i > Len(deps) THEN g
    ELSE ParseDependencies(source, deps, i + 1,
                           setEdge(setNode(g, deps[i], deps[i]),
                                   source, deps[i], "import"))

\* Object.entries(data).forEach
RECURSIVE ParseModules(_, _, _)
ParseModules(modules, i, g) ==
    IF Evaluated(g) /\ i > Len(modules) THEN g
    ELSE ParseModules(modules, i + 1,
                      ParseDependencies(modules[i].source, modules[i].dependencies, 1,
                                        setNode(g, modules[i].source, modules[i].source)))

\* if (data.nodes && data.edges) ... else if (typeof data === 'object')
parseJsonGraph(data) ==
    IF {"nodes", "edges"} \subseteq DOMAIN data
    THEN ParseEdges(data.edges, 1, ParseNodes(data.nodes, 1, EmptyGraph))
    ELSE ParseModules(data.modules, 1, EmptyGraph)

(***************************************************************************)
(* GraphService.findCyclesInGraph and detectCycles                         *)
(***************************************************************************)
\* The slice taken from the start of the path, whichever ancestor the
\* back edge reaches
FirstIndexWholePath(path, node) ==
    IF \E i \in 1..Len(path) : path[i] = node THEN 1 ELSE 0

\* path.indexOf(node): the first position, 0 when absent
FirstIndex(path, node) ==
    LET at == {i \in 1..Len(path) : path[i] = node}
    IN  IF at = {} THEN 0 ELSE CHOOSE i \in at : \A j \in at : i <= j

NewSearch == [cycles |-> <<>>, visited |-> {}, recStack |-> {}, path |-> <<>>]

\* The guards with the visited test first, which hides every back edge
CycleDfsCaseVisitedFirst(node, st) ==
    IF node \in st.visited THEN "seen"
    ELSE IF node \in st.recStack THEN "cycle" ELSE "descend"

\* The guards of the inner dfs, in the order the code tests them:
\* "cycle" when the node is on the recursion stack, "seen" when it was
\* visited before, otherwise "descend"
CycleDfsCase(node, st) ==
    IF node \in st.recStack THEN "cycle"
    ELSE IF node \in st.visited THEN "seen" ELSE "descend"

RECURSIVE cycleDfs(_, _, _)
RECURSIVE cycleDfsEdges(_, _, _, _)
cycleDfs(g, node, st) ==
    CASE CycleDfsCase(node, st) = "cycle" ->
           LET cycleStart == FirstIndex(st.path, node)
           IN  IF cycleStart # 0
               THEN [st EXCEPT !.cycles =
                       Append(@, SubSeq(st.path, cycleStart, Len(st.path)))]
               ELSE st
      [] CycleDfsCase(node, st) = "seen" -> st
      [] OTHER ->
           LET entered == [st EXCEPT !.visited = @ \cup {node},
                                     !.recStack = @ \cup {node},
                                     !.path = Append(@, node)]
               after == cycleDfsEdges(g, outEdges(g, node), 1, entered)
           IN  [after EXCEPT !.path = SubSeq(@, 1, Len(@) - 1),
                             !.recStack = @ \ {node}]

cycleDfsEdges(g, outs, i, st) ==
    IF i > Len(outs) THEN st
    ELSE cycleDfsEdges(g, outs, i + 1, cycleDfs(g, outs[i].w, st))

\* for (const node of graph.nodes()) if (!visited.has(node)) dfs(node)
RECURSIVE CycleRoots(_, _, _)
CycleRoots(g, i, st) ==
    IF i > Len(g.nodes) THEN st
    ELSE CycleRoots(g, i + 1,
                    IF g.nodes[i].id \notin st.visited
                    THEN cycleDfs(g, g.nodes[i].id, st) ELSE st)

findCyclesInGraph(g) == CycleRoots(g, 1, NewSearch).cycles

\* One entry per cycle of every loaded graph, tagged with the graph
RECURSIVE detectCyclesFrom(_, _, _)
detectCyclesFrom(gs, i, acc) ==
    IF i > Len(gs) THEN acc
    ELSE LET found == findCyclesInGraph(gs[i])
         IN  detectCyclesFrom(gs, i + 1,
               acc \o [k \in 1..Len(found) |->
                         [language |-> i, nodes |-> found[k],
                          length |-> Len(found[k])]])

detectCycles(gs) == detectCyclesFrom(gs, 1, <<>>)

(***************************************************************************)
(* Specification of cycle detection: the graph files of one or two         *)
(* languages are loaded, then detectCycles runs.                           *)
(***************************************************************************)
MaxCycleEdges == 3

CycleIds == {<<"x">>, <<"y">>, <<"z">>}

SecondIds == {<<"x">>, <<"y">>}

\* data.nodes of a graph file: either none (every node comes from an edge)
\* or all three, listed last to first
CycleNodeLists ==
    {<<>>,
     <<[id |-> <<"z">>, file |-> <<"z">>], [id |-> <<"y">>, file |-> <<"y">>],
       [id |-> <<"x">>, file |-> <<"x">>]>>}

EdgeLists(ids, maxLen) ==
    UNION {[1..n -> [from : ids, to : ids, type : {"imports"}]] : n \in 0..maxLen}

\* Two cycles through x and y, the longer one closed by an edge into a
\* node the DFS has left
ShortcutGraphFile ==
    [nodes |-> <<>>,
     edges |-> <<[from |-> <<"x">>, to |-> <<"y">>, type |-> "imports"],
                 [from |-> <<"x">>, to |-> <<"z">>, type |-> "imports"],
                 [from |-> <<"y">>, to |-> <<"x">>, type |-> "imports"],
                 [from |-> <<"z">>, to |-> <<"y">>, type |-> "imports"]>>]

CycleGraphFiles ==
    {<<ShortcutGraphFile>>}
    \cup
    {<<first>> : first \in [nodes : CycleNodeLists,
                            edges : EdgeLists(CycleIds, MaxCycleEdges)]}
    \cup
    {<<first, second>> :
        first \in [nodes : CycleNodeLists, edges : EdgeLists(CycleIds, MaxCycleEdges)],
        second \in [nodes : {<<>>}, edges : EdgeLists(SecondIds, 1)]}

CycleInit ==
    /\ graphFiles \in CycleGraphFiles
    /\ graphs = <<>>
    /\ cycles = NotRun

CycleIdle ==
    /\ graphFiles = <<>>
    /\ graphs = <<>>
    /\ cycles = NotRun

\* GraphService.loadAllGraphs: every graph file is parsed into its Graph
LoadAllGraphs ==
    /\ graphs = <<>>
    /\ graphFiles # <<>>
    /\ graphs' = [i \in 1..Len(graphFiles) |-> parseJsonGraph(graphFiles[i])]
    /\ UNCHANGED <<graphFiles, cycles>>

\* GraphService.detectCycles
DetectCycles ==
    /\ graphs # <<>>
    /\ cycles = NotRun
    /\ cycles' = [status |-> "ok", value |-> detectCycles(graphs)]
    /\ UNCHANGED <<graphFiles, graphs>>

(***************************************************************************)
(* GraphService.findRelatedFiles and findDirectlyRelated                   *)
(***************************************************************************)
\* Math.max(0.1, 1 - depth * 0.2), in tenths.  The doubles the code
\* computes (0.8, 0.6, 0.3999..., 0.1999..., 0.1) are ordered as these are
\* and never fall below the floor.
ConfidenceFloor == 1

ConfidenceStart == 10

ConfidenceDecay == 2

\* The decay without its floor
ConfidenceNoFloor(depth) == ConfidenceStart - depth * ConfidenceDecay

Confidence(depth) ==
    Max(ConfidenceFloor, ConfidenceStart - depth * ConfidenceDecay)

\* graph.node(id): the node's entry; labelled is FALSE for undefined
NodeOf(g, id) == g.nodes[CHOOSE i \in 1..Len(g.nodes) : g.nodes[i].id = id]

\* nodeData && (nodeData.file === file || nodeData.file?.endsWith(file) ||
\*              file.endsWith(nodeData.file || ''))
MatchesFile(n, file) ==
    /\ n.labelled
    /\ \/ n.file = file
       \/ (n.file # NoFile /\ EndsWith(n.file, file))
       \/ EndsWith(file, n.file)

matchingNodes(g, file) == SelectSeq(g.nodes, LAMBDA n : MatchesFile(n, file))

\* One edge of a matching node; other is the far endpoint.  Reading .file of
\* an endpoint that has no label throws.
PushEdge(g, other, type, relation, nextDepth, types, st) ==
    IF st.threw \/ type \notin types THEN st
    ELSE LET n == NodeOf(g, other)
         IN  IF ~n.labelled THEN [st EXCEPT !.threw = TRUE]
             ELSE [st EXCEPT !.queue =
                     Append(@, [file |-> IF n.file # NoFile THEN n.file ELSE other,
                                depth |-> nextDepth,
                                relation |-> relation])]

RECURSIVE PushOut(_, _, _, _, _, _)
PushOut(g, outs, i, nextDepth, types, st) ==
    IF i > Len(outs) THEN st
    ELSE PushOut(g, outs, i + 1, nextDepth, types,
                 PushEdge(g, outs[i].w, outs[i].type,
                          <<"forward", outs[i].type>>, nextDepth, types, st))

RECURSIVE PushIn(_, _, _, _, _, _)
PushIn(g, ins, i, nextDepth, types, st) ==
    IF i > Len(ins) THEN st
    ELSE PushIn(g, ins, i + 1, nextDepth, types,
                PushEdge(g, ins[i].v, ins[i].type,
                         <<"reverse", ins[i].type>>, nextDepth, types, st))

RECURSIVE DirectNodes(_, _, _, _, _, _, _)
DirectNodes(g, nodes, i, nextDepth, types, includeReverse, st) ==
    IF i > Len(nodes) THEN st
    ELSE LET out == PushOut(g, outEdges(g, nodes[i].id), 1, nextDepth, types, st)
             both == IF includeReverse
                     THEN PushIn(g, inEdges(g, nodes[i].id), 1, nextDepth, types, out)
                     ELSE out
         IN  DirectNodes(g, nodes, i + 1, nextDepth, types, includeReverse, both)

findDirectlyRelated(g, file, nextDepth, types, includeReverse, st) ==
    DirectNodes(g, matchingNodes(g, file), 1, nextDepth, types, includeReverse, st)

\* for (const [language, graph] of this.graphs)
RECURSIVE AllGraphs(_, _, _, _, _, _, _)
AllGraphs(gs, i, file, nextDepth, types, includeReverse, st) ==
    IF i > Len(gs) THEN st
    ELSE AllGraphs(gs, i + 1, file, nextDepth, types, includeReverse,
                   findDirectlyRelated(gs[i], file, nextDepth, types,
                                       includeReverse, st))

\* while (queue.length > 0); st = [queue, visited, related, threw]
RECURSIVE RelatedLoop(_, _, _)
RelatedLoop(gs, opts, st) ==
    IF st.threw \/ st.queue = <<>> THEN st
    ELSE LET item == Head(st.queue)
             rest == [st EXCEPT !.queue = Tail(@)]
         IN  IF item.file \in st.visited \/ item.depth > opts.maxDepth
             THEN RelatedLoop(gs, opts, rest)
             ELSE LET seen == [rest EXCEPT
                                 !.visited = @ \cup {item.file},
                                 !.related =
                                    IF item.depth > 0
                                    THEN Append(@, [path |-> item.file,
                                                    relationship |-> item.relation,
                                                    depth |-> item.depth,
                                                    confidence |-> Confidence(item.depth)])
                                    ELSE @]
                  IN  RelatedLoop(gs, opts,
                        AllGraphs(gs, 1, item.file, item.depth + 1,
                                  opts.relationTypes, opts.includeReverse, seen))

\* The traversal of GraphService.findRelatedFiles, without its cache
RelatedSearch(gs, targetFile, opts) ==
    LET done == RelatedLoop(gs, opts,
                  [queue |-> <<[file |-> targetFile, depth |-> 0,
                                relation |-> <<"self", "">>]>>,
                   visited |-> {}, related |-> <<>>, threw |-> FALSE])
    IN  IF done.threw THEN [status |-> "threw", value |-> <<>>]
        ELSE [status |-> "ok", value |-> done.related]

\* The cached result for a key, or the traversal's; the cache after the call
CacheKey(targetFile, opts) == [targetFile |-> targetFile, options |-> opts]

findRelatedFiles(gs, c, targetFile, opts) ==
    LET key == CacheKey(targetFile, opts)
        hit == {e \in c : e.key = key}
    IN  IF hit # {}
        THEN [result |-> [status |-> "ok", value |-> (CHOOSE e \in hit : TRUE).value],
              cache |-> c]
        ELSE LET res == RelatedSearch(gs, targetFile, opts)
             IN  [result |-> res,
                  cache |-> IF res.status = "ok"
                            THEN c \cup {[key |-> key, value |-> res.value]}
                            ELSE c]

(***************************************************************************)
(* GraphTool.findRelatedFiles                                              *)
(***************************************************************************)
\* The comparator with its operands swapped: lowest confidence first
ConfidenceOrderAscending(a, b) == a.confidence <= b.confidence

\* The comparator (a, b) => b.confidence - a.confidence says a may stay
\* before b
ConfidenceOrder(a, b) == a.confidence >= b.confidence

\* Array.prototype.sort is stable: an element goes after the elements that
\* may stay before it
RECURSIVE InsertByConfidence(_, _, _)
InsertByConfidence(sorted, e, i) ==
    IF i > Len(sorted) THEN Append(sorted, e)
    ELSE IF ~ConfidenceOrder(sorted[i], e)
         THEN SubSeq(sorted, 1, i - 1) \o <<e>> \o SubSeq(sorted, i, Len(sorted))
         ELSE InsertByConfidence(sorted, e, i + 1)

RECURSIVE SortByConfidence(_, _, _)
SortByConfidence(list, i, acc) ==
    IF i > Len(list) THEN acc
    ELSE SortByConfidence(list, i + 1, InsertByConfidence(acc, list[i], 1))

DefaultDepth == 3

DefaultMaxResults == 20

DefaultTypes == {"imports", "calls", "inheritance"}

\* What the caller gets, and the service's cache afterwards
toolFindRelatedFiles(isInit, gs, c, targetFile, topts) ==
    IF ~isInit THEN [value |-> <<>>, cache |-> c]
    ELSE LET call == findRelatedFiles(gs, c, targetFile,
                        [maxDepth |-> topts.depth,
                         relationTypes |-> topts.types,
                         includeReverse |-> topts.includeReverse])
             sorted == SortByConfidence(call.result.value, 1, <<>>)
         IN  [value |-> IF call.result.status = "threw" THEN <<>>
                        ELSE SubSeq(sorted, 1, Min(Len(sorted), topts.maxResults)),
              cache |-> call.cache]

(***************************************************************************)
(* Specification of find_related: a graph file is loaded by                *)
(* GraphTool.initialize, then one query is asked.                          *)
(***************************************************************************)
RelatedMaxDepth == 6

SmallMaxResults == 2

FileA == <<"a">>

FileB == <<"b">>

FileC == <<"c">>

FileD == <<"d">>

FileE == <<"e">>

FileF == <<"f">>

\* A file in a directory whose base name is that of FileA
FileSA == <<"s", "/", "a">>

\* A node with a label and no file attribute, as a DOT graph has them
IdU == <<"u">>

\* A node that only an edge mentions
IdV == <<"v">>

FileNode(f) == [id |-> f, file |-> f]

RelatedNodeLists ==
    {<<FileNode(FileA), FileNode(FileB), FileNode(FileC), FileNode(FileD),
       FileNode(FileE), FileNode(FileF), [id |-> IdU, file |-> NoFile]>>,
     <<FileNode(FileSA), FileNode(FileF), FileNode(FileE), FileNode(FileD),
       FileNode(FileC), FileNode(FileB), FileNode(FileA)>>}

ImportEdge(v, w, type) == [from |-> v, to |-> w, type |-> type]

\* The edges a graph file may list, in file order: a chain a .. f with a
\* shortcut and a way back (the chain c .. f is listed whole or not at
\* all), an edge whose type is no default relation
\* type, an edge to an unlisted node and one from the node without a file
RelatedEdgeCandidates ==
    <<ImportEdge(FileA, FileC, "imports"),
      ImportEdge(FileA, FileB, "imports"),
      ImportEdge(FileB, FileC, "calls"),
      ImportEdge(FileC, FileD, "imports"),
      ImportEdge(FileD, FileE, "imports"),
      ImportEdge(FileE, FileF, "imports"),
      ImportEdge(FileF, FileA, "imports"),
      ImportEdge(FileB, FileD, "dependency"),
      ImportEdge(FileC, IdV, "imports"),
      ImportEdge(IdU, FileB, "calls")>>

RECURSIVE Chosen(_, _, _, _)
Chosen(cand, chosen, i, acc) ==
    IF i > Len(cand) THEN acc
    ELSE Chosen(cand, chosen, i + 1,
                IF i \in chosen THEN Append(acc, cand[i]) ELSE acc)

\* What madge --json writes for a that imports b and b that imports
\* nothing
MadgeGraphFile ==
    [modules |-> <<[source |-> FileA, dependencies |-> <<FileB>>],
                   [source |-> FileB, dependencies |-> <<>>]>>]

\* The same two files as nodes and one edge of type imports
TwoFileGraphFile ==
    [nodes |-> <<FileNode(FileA), FileNode(FileB)>>,
     edges |-> <<ImportEdge(FileA, FileB, "imports")>>]

RelatedGraphFiles ==
    {<<[nodes |-> nodes,
        edges |-> Chosen(RelatedEdgeCandidates, chosen, 1, <<>>)]>> :
       nodes \in RelatedNodeLists,
       chosen \in {c \in SUBSET (1..Len(RelatedEdgeCandidates)) :
                     (4 \in c <=> 5 \in c) /\ (5 \in c <=> 6 \in c)}}
      \cup {<<MadgeGraphFile>>, <<TwoFileGraphFile>>}

\* A path no graph file mentions
UnknownFile == <<"q">>

RelatedTargets == {FileA, FileB, FileC, FileSA, UnknownFile}

ToolOptions ==
    [depth : {1, DefaultDepth, RelatedMaxDepth},
     types : {DefaultTypes},
     includeReverse : BOOLEAN,
     maxResults : {SmallMaxResults, DefaultMaxResults}]

RelatedInit ==
    /\ graphFiles \in RelatedGraphFiles
    /\ graphs = <<>>
    /\ cycles = NotRun
    /\ initialized = FALSE
    /\ cache = {}
    /\ related = NotRun

RelatedIdle ==
    /\ initialized = FALSE
    /\ cache = {}
    /\ related = NotRun

\* GraphTool.initialize
Initialize ==
    /\ ~initialized
    /\ LoadAllGraphs
    /\ initialized' = TRUE
    /\ UNCHANGED <<cache, related>>

\* GraphTool.findRelatedFiles(targetFile, options), for one of the given
\* queries; reloaded says whether the graphs were loaded again before it
FindRelatedOf(queries, reloaded) ==
    /\ \E q \in queries :
         LET call == toolFindRelatedFiles(initialized, graphs, cache,
                                          q.targetFile, q.options)
         IN  /\ related' = [targetFile |-> q.targetFile, options |-> q.options,
                            initialized |-> initialized,
                            reloaded |-> reloaded,
                            value |-> call.value]
             /\ cache' = call.cache
    /\ UNCHANGED <<graphFiles, graphs, cycles, initialized>>

FindRelated ==
    /\ related = NotRun
    /\ FindRelatedOf([targetFile : RelatedTargets, options : ToolOptions], FALSE)

(***************************************************************************)
(* Reloading: the daemon rewrites a graph file, GraphService.initialize is *)
(* called again (GraphTool.initialize, GraphCommands.initialize and the    *)
(* system's initialize all call it, none looks whether it ran before), and *)
(* the query asked before the change is asked again.                       *)
(***************************************************************************)
\* What the daemon may leave in .graph after the project's files changed
RewrittenGraphFiles == {<<TwoFileGraphFile>>, <<MadgeGraphFile>>}

LoadedGraphs(files) == [i \in 1..Len(files) |-> parseJsonGraph(files[i])]

\* The graph file is replaced on disk; the service still holds the graphs
\* it loaded
GraphsChange ==
    /\ related # NotRun
    /\ related.initialized
    /\ ~related.reloaded
    /\ graphs = LoadedGraphs(graphFiles)
    /\ \E files \in RewrittenGraphFiles :
         /\ LoadedGraphs(files) # graphs
         /\ graphFiles' = files
    /\ UNCHANGED <<graphs, cycles, initialized, cache, related>>

\* GraphService.initialize, called again: loadAllGraphs sets every
\* language's graph anew and touches nothing else of the service
Reload ==
    /\ initialized
    /\ graphs # LoadedGraphs(graphFiles)
    /\ graphs' = LoadedGraphs(graphFiles)
    /\ UNCHANGED <<graphFiles, cycles, initialized, cache, related>>

\* The same call as before the change, after the graphs were loaded again
FindRelatedAgain ==
    /\ related # NotRun
    /\ related.initialized
    /\ ~related.reloaded
    /\ graphs = LoadedGraphs(graphFiles)
    /\ graphFiles \in RewrittenGraphFiles
    /\ FindRelatedOf({[targetFile |-> related.targetFile,
                       options |-> related.options]}, TRUE)

(***************************************************************************)
(* The daemon, its lock file .graph/daemon.lock, and the commands that     *)
(* start, stop and watch it.  The commands are GraphCommands.js and        *)
(* GraphTool.js; the daemon itself (tools/codegraphd.py) follows the       *)
(* Daemon Supervisor's Lifecycle and Signals.                              *)
(***************************************************************************)
MaxPid == 3

MaxClients == 2

Pids == 1..MaxPid

Clients == 1..MaxClients

\* No lock file / no process id
NoPid == 0

Unborn == [pc |-> "unborn", term |-> FALSE, at |-> ""]

\* child and early are history: the daemon a start command has spawned, and
\* whether its first isDaemonRunning returned before the daemon of any other
\* start command under way had come to the lock
ClientIdle ==
    [pc |-> "idle", cmd |-> "", pid |-> NoPid, again |-> FALSE,
     child |-> NoPid, early |-> FALSE]

\* process.kill(pid, 0) succeeds
Alive(p) == procs[p].pc \in {"spawned", "idle", "applying", "snapshotted", "released"}

\* The daemon has acquired the lock and not yet released it
HoldsLock(p) == procs[p].pc \in {"idle", "applying", "snapshotted"}

\* A SIGKILL: the process is gone wherever it was
Killed(pr) == [pr EXCEPT !.pc = "killed", !.at = pr.pc]

DaemonIdle ==
    /\ lockFile = NoPid
    /\ procs = [p \in Pids |-> Unborn]
    /\ nextPid = 1
    /\ clients = [c \in Clients |-> ClientIdle]

\* What the command does once isDaemonRunning has returned {running, pid}
AfterCheck(cl, running, pid) ==
    IF cl.cmd = "start" /\ ~cl.again /\ ~running
    THEN [cl EXCEPT !.pc = "spawn", !.pid = NoPid,
                    !.early = \A d \in Clients :
                                 \/ clients[d].child = NoPid
                                 \/ procs[clients[d].child].pc = "spawned"]
    ELSE IF cl.cmd \in {"stop", "forcestop"} /\ running
    THEN [cl EXCEPT !.pc = "signal", !.pid = pid]
    ELSE ClientIdle

\* A command is issued: /dstart --background, /dstop, /dstop --force or
\* /dstatus; each begins with isDaemonRunning
Begin(c, cmd) ==
    /\ clients[c].pc = "idle"
    /\ clients' = [clients EXCEPT ![c] = [ClientIdle EXCEPT !.pc = "access", !.cmd = cmd]]
    /\ UNCHANGED <<lockFile, procs, nextPid>>

\* isDaemonRunning: await fs.access(lockFile)
Access(c) ==
    /\ clients[c].pc = "access"
    /\ clients' = [clients EXCEPT ![c] =
                     IF lockFile = NoPid THEN AfterCheck(@, FALSE, NoPid)
                     ELSE [@ EXCEPT !.pc = "read"]]
    /\ UNCHANGED <<lockFile, procs, nextPid>>

\* isDaemonRunning: await fs.readFile(lockFile)
ReadLock(c) ==
    /\ clients[c].pc = "read"
    /\ clients' = [clients EXCEPT ![c] =
                     IF lockFile = NoPid THEN AfterCheck(@, FALSE, NoPid)
                     ELSE [@ EXCEPT !.pc = "probe", !.pid = lockFile]]
    /\ UNCHANGED <<lockFile, procs, nextPid>>

\* isDaemonRunning: process.kill(pid, 0)
Probe(c) ==
    /\ clients[c].pc = "probe"
    /\ clients' = [clients EXCEPT ![c] =
                     IF Alive(@.pid) THEN AfterCheck(@, TRUE, @.pid)
                     ELSE [@ EXCEPT !.pc = "unlink"]]
    /\ UNCHANGED <<lockFile, procs, nextPid>>

\* isDaemonRunning: await fs.unlink(lockFile).catch(() => {})
Unlink(c) ==
    /\ clients[c].pc = "unlink"
    /\ lockFile' = NoPid
    /\ clients' = [clients EXCEPT ![c] = AfterCheck(@, FALSE, NoPid)]
    /\ UNCHANGED <<procs, nextPid>>

\* startDaemonBackground: spawn, wait a second, isDaemonRunning again
Spawn(c) ==
    /\ clients[c].pc = "spawn"
    /\ nextPid <= MaxPid
    /\ procs' = [procs EXCEPT ![nextPid].pc = "spawned"]
    /\ nextPid' = nextPid + 1
    /\ clients' = [clients EXCEPT ![c].pc = "access", ![c].again = TRUE,
                                  ![c].child = nextPid]
    /\ UNCHANGED lockFile

\* stopDaemon: process.kill(pid, force ? 'SIGKILL' : 'SIGTERM')
Signal(c) ==
    /\ clients[c].pc = "signal"
    /\ LET pid == clients[c].pid
       IN  IF ~Alive(pid)
           THEN /\ clients' = [clients EXCEPT ![c] = ClientIdle]
                /\ UNCHANGED procs
           ELSE IF clients[c].cmd = "forcestop"
           THEN /\ procs' = [procs EXCEPT ![pid] = Killed(@)]
                /\ clients' = [clients EXCEPT ![c] = ClientIdle]
           ELSE /\ procs' = [procs EXCEPT ![pid].term = TRUE]
                /\ clients' = [clients EXCEPT ![c].pc = "recheck"]
    /\ UNCHANGED <<lockFile, nextPid>>

\* stopDaemon, two seconds later: process.kill(pid, 0) and, if that
\* succeeds, process.kill(pid, 'SIGKILL')
Recheck(c) ==
    /\ clients[c].pc = "recheck"
    /\ LET pid == clients[c].pid
       IN  procs' = IF Alive(pid) THEN [procs EXCEPT ![pid] = Killed(@)] ELSE procs
    /\ clients' = [clients EXCEPT ![c] = ClientIdle]
    /\ UNCHANGED <<lockFile, nextPid>>

\* A daemon that takes the lock without looking at it
AcquireUnchecked(p) ==
    /\ procs[p].pc = "spawned"
    /\ procs' = [procs EXCEPT ![p].pc = "idle"]
    /\ lockFile' = p
    /\ UNCHANGED <<nextPid, clients>>

\* Daemon start: refuse (exit code 2) if the lock exists and the process
\* it names is alive; otherwise clean a stale lock up and take the lock
\* with the own PID
Acquire(p) ==
    /\ procs[p].pc = "spawned"
    /\ IF lockFile # NoPid /\ Alive(lockFile)
       THEN /\ procs' = [procs EXCEPT ![p].pc = "refused"]
            /\ UNCHANGED lockFile
       ELSE /\ procs' = [procs EXCEPT ![p].pc = "idle"]
            /\ lockFile' = p
    /\ UNCHANGED <<nextPid, clients>>

\* The dispatcher hands the applier a batch
BeginBatch(p) ==
    /\ procs[p].pc = "idle"
    /\ ~procs[p].term
    /\ procs' = [procs EXCEPT ![p].pc = "applying"]
    /\ UNCHANGED <<lockFile, nextPid, clients>>

\* The batch in flight is applied to its end
FinishBatch(p) ==
    /\ procs[p].pc = "applying"
    /\ procs' = [procs EXCEPT ![p].pc = "idle"]
    /\ UNCHANGED <<lockFile, nextPid, clients>>

\* stop: after the drain, the snapshot
Snapshot(p) ==
    /\ procs[p].pc = "idle"
    /\ procs[p].term
    /\ procs' = [procs EXCEPT ![p].pc = "snapshotted"]
    /\ UNCHANGED <<lockFile, nextPid, clients>>

\* stop: release the lock
ReleaseLock(p) ==
    /\ procs[p].pc = "snapshotted"
    /\ procs' = [procs EXCEPT ![p].pc = "released"]
    /\ lockFile' = IF lockFile = p THEN NoPid ELSE lockFile
    /\ UNCHANGED <<nextPid, clients>>

\* stop: exit zero
Exit(p) ==
    /\ procs[p].pc = "released"
    /\ procs' = [procs EXCEPT ![p].pc = "exited"]
    /\ UNCHANGED <<lockFile, nextPid, clients>>

Commands == {"start", "stop", "forcestop", "status"}

\* Client 1 is a session that issues every command; the other sessions
\* start the daemon or ask for its status
CommandsOf(c) == IF c = 1 THEN Commands ELSE {"start", "status"}

(***************************************************************************)
(* GraphClustering.saveClusters: the super-graph and the cluster files on  *)
(* disk, the process that writes them, and a reader                        *)
(***************************************************************************)
\* supergraph.json is artifact 1, the cluster files are the others
MaxArtifacts == 3

\* Snapshots written one after the other, numbered from 1
MaxSaves == 2

Artifacts == 1..MaxArtifacts

\* A file that does not exist
Absent == [gen |-> 0, part |-> FALSE]

NoRead == [artifact |-> 0, gen |-> 0, part |-> FALSE]

SaveIdle ==
    /\ disk = [a \in Artifacts |-> Absent]
    /\ writer = [pc |-> "idle", idx |-> 0, gen |-> 0]
    /\ observed = NoRead

\* saveClusters is entered with the clustering of the next snapshot
SaveClusters ==
    /\ writer.pc = "idle"
    /\ writer.gen < MaxSaves
    /\ writer' = [pc |-> "open", idx |-> 1, gen |-> writer.gen + 1]
    /\ UNCHANGED <<disk, observed>>

\* writeFile(path, data) opens path itself for writing, which truncates it
OpenFile ==
    /\ writer.pc = "open"
    /\ disk' = [disk EXCEPT ![writer.idx] = [gen |-> writer.gen, part |-> TRUE]]
    /\ writer' = [writer EXCEPT !.pc = "write"]
    /\ UNCHANGED observed

\* writeFile has written the data; the next file follows, if any
WriteFile ==
    /\ writer.pc = "write"
    /\ disk' = [disk EXCEPT ![writer.idx].part = FALSE]
    /\ writer' = IF writer.idx < MaxArtifacts
                 THEN [writer EXCEPT !.pc = "open", !.idx = @ + 1]
                 ELSE [writer EXCEPT !.pc = "idle", !.idx = 0]
    /\ UNCHANGED observed

\* The writing process is killed inside saveClusters
KillWriter ==
    /\ writer.pc \in {"open", "write"}
    /\ writer' = [writer EXCEPT !.pc = "killed"]
    /\ UNCHANGED <<disk, observed>>

\* A new process takes the place of the killed one
RestartWriter ==
    /\ writer.pc = "killed"
    /\ writer' = [writer EXCEPT !.pc = "idle", !.idx = 0]
    /\ UNCHANGED <<disk, observed>>

\* A reader opens an artifact: readFile(path) as in loadSuperGraph
LoadArtifact(a) ==
    /\ observed' = [artifact |-> a, gen |-> disk[a].gen, part |-> disk[a].part]
    /\ UNCHANGED <<disk, writer>>

(***************************************************************************)
(* The watcher, the scheduler's coalescing queue, the applier and the      *)
(* Graph Store of the daemon (tools/codegraphd.py), after Watcher +        *)
(* Scheduler, Graph Store and the Ordering guarantees.  Time passes in     *)
(* ticks of 100 ms.                                                        *)
(***************************************************************************)
\* Filesystem events the watcher reports in one run
MaxEvents == 3

\* The scheduler's batch size (UPDATE_BATCH_SIZE), set low enough for a
\* burst to be split
BatchLimit == 2

\* UPDATE_DELAY = 0.5 seconds, in ticks
QuiescenceDelay == 5

StoreFiles == {"a", "b", "c"}

\* A file that is not on disk
Missing == "missing"

\* Bytes no extractor can read
Malformed == "malformed"

FileContents == {"one", "two", Malformed}

NoRecord == [ok |-> FALSE, edges |-> {}]

StoreEdge(f, target, type) == [source |-> f, target |-> target, type |-> type]

\* extract(path, bytes): a pure function of the file's contents
Extract(f, bytes) ==
    IF bytes = "one"
    THEN [ok |-> TRUE, edges |-> {StoreEdge(f, "lib", "import")}]
    ELSE IF bytes = "two"
    THEN [ok |-> TRUE, edges |-> {StoreEdge(f, "lib", "import"),
                                  StoreEdge(f, "util", "call")}]
    ELSE NoRecord

\* apply_delta that adds the record's edges and removes none
apply_delta_merging(edges, f, record) == edges \cup record.edges

\* apply_delta(file, record): all outgoing edges sourced at file are
\* replaced with those in the record
apply_delta(edges, f, record) ==
    {e \in edges : e.source # f} \cup record.edges

\* remove_file(file): the node and all its outgoing edges go
remove_file(edges, f) == {e \in edges : e.source # f}

\* A second event for a file joins the entry the queue holds for it
MergeKind(old, new) ==
    IF old = "created" /\ new = "modified" THEN "created" ELSE new

PendingFiles(q) == {q[i].file : i \in 1..Len(q)}

\* The watcher's event enters the coalescing queue; gap is the time since
\* the file's event before, up to the delay, and n the event's number
Enqueue(q, f, kind, gap, n) ==
    IF f \in PendingFiles(q)
    THEN [i \in 1..Len(q) |->
            IF q[i].file = f
            THEN [q[i] EXCEPT !.kind = MergeKind(@, kind), !.gaps = Append(@, gap)]
            ELSE q[i]]
    ELSE Append(q, [file |-> f, kind |-> kind, gaps |-> <<gap>>, first |-> n])

\* A dispatcher that does not wait
QuiescentAtOnce(q, f) == TRUE

\* No new event for the file for the quiescence delay
Quiescent(q, f) == q[f] >= QuiescenceDelay

\* The entries one drain takes: the first BatchLimit quiescent ones
Drained(q, qt) ==
    LET ready == SelectSeq(q, LAMBDA e : Quiescent(qt, e.file))
    IN  SubSeq(ready, 1, Min(Len(ready), BatchLimit))

OfKind(entries, kind) == SelectSeq(entries, LAMBDA e : e.kind = kind)

\* A batch with its creations first
BatchOrderCreationsFirst(entries) ==
    OfKind(entries, "created") \o OfKind(entries, "deleted") \o OfKind(entries, "modified")

\* Within a batch: deletions first, then creations, then modifications
BatchOrder(entries) ==
    OfKind(entries, "deleted") \o OfKind(entries, "created") \o OfKind(entries, "modified")

StoreIdle ==
    /\ fsContent = [f \in StoreFiles |-> Missing]
    /\ pending = <<>>
    /\ quiet = [f \in StoreFiles |-> QuiescenceDelay]
    /\ batches = <<>>
    /\ store = {}
    /\ extracted = [f \in StoreFiles |-> NoRecord]
    /\ log = <<>>
    /\ eventCount = 0
    /\ formed = 0

\* A file is saved: created if it was not there, modified otherwise
SaveFile(f, bytes) ==
    /\ eventCount < MaxEvents
    /\ fsContent' = [fsContent EXCEPT ![f] = bytes]
    /\ pending' = Enqueue(pending, f,
                          IF fsContent[f] = Missing THEN "created" ELSE "modified",
                          quiet[f], eventCount + 1)
    /\ quiet' = [quiet EXCEPT ![f] = 0]
    /\ eventCount' = eventCount + 1
    /\ UNCHANGED <<batches, store, extracted, log, formed>>

\* A file is deleted
DeleteFile(f) ==
    /\ eventCount < MaxEvents
    /\ fsContent[f] # Missing
    /\ fsContent' = [fsContent EXCEPT ![f] = Missing]
    /\ pending' = Enqueue(pending, f, "deleted", quiet[f], eventCount + 1)
    /\ quiet' = [quiet EXCEPT ![f] = 0]
    /\ eventCount' = eventCount + 1
    /\ UNCHANGED <<batches, store, extracted, log, formed>>

\* 100 ms pass
Tick ==
    /\ \E f \in StoreFiles : quiet[f] < QuiescenceDelay
    /\ quiet' = [f \in StoreFiles |-> Min(quiet[f] + 1, QuiescenceDelay)]
    /\ UNCHANGED <<fsContent, pending, batches, store, extracted, log, eventCount, formed>>

\* The dispatcher drains the queue into a batch for the applier queue
Drain ==
    LET taken == Drained(pending, quiet)
    IN  /\ taken # <<>>
        /\ formed' = formed + 1
        /\ batches' = Append(batches, [id |-> formed + 1, entries |-> BatchOrder(taken)])
        /\ pending' = SelectSeq(pending, LAMBDA e : e.file \notin PendingFiles(taken))
        /\ UNCHANGED <<fsContent, quiet, store, extracted, log, eventCount>>

\* The applier takes the next entry of the oldest batch: a deletion
\* removes the file, anything else is extracted from the bytes on disk and
\* applied; a failed extraction leaves the store as it is
ApplyNext ==
    /\ batches # <<>>
    /\ LET batch == Head(batches)
           e == Head(batch.entries)
           record == Extract(e.file, fsContent[e.file])
       IN  /\ IF e.kind = "deleted"
              THEN /\ store' = remove_file(store, e.file)
                   /\ extracted' = [extracted EXCEPT ![e.file] = NoRecord]
              ELSE IF record.ok
              THEN /\ store' = apply_delta(store, e.file, record)
                   /\ extracted' = [extracted EXCEPT ![e.file] = record]
              ELSE UNCHANGED <<store, extracted>>
           /\ log' = Append(log, [batch |-> batch.id, file |-> e.file,
                                  kind |-> e.kind, gaps |-> e.gaps,
                                  first |-> e.first,
                                  bytes |-> fsContent[e.file]])
           /\ batches' = IF Len(batch.entries) = 1 THEN Tail(batches)
                         ELSE <<[batch EXCEPT !.entries = Tail(@)]>> \o Tail(batches)
    /\ UNCHANGED <<fsContent, pending, quiet, eventCount, formed>>

(***************************************************************************)
(* GraphService.findHotPaths and findPathsFromNode                         *)
(***************************************************************************)
\* maxLength of findPathsFromNode(graph, hotNode.id, 3)
HotMaxLength == 3

\* .filter(node => node.degree > 2)
HotDegree == 2

\* .slice(0, 5)
HotNodeCap == 5

\* allPaths.slice(0, 10)
HotPathCap == 10

\* const limit = options.limit || 10
DefaultHotLimit == 10

\* The inner dfs of findPathsFromNode; st = [paths, visited, path]
RECURSIVE hotDfs(_, _, _)
RECURSIVE hotDfsEdges(_, _, _, _)
hotDfs(g, currentNode, st) ==
    IF Len(st.path) >= HotMaxLength \/ currentNode \in st.visited
    THEN IF Len(st.path) > 1
         THEN [st EXCEPT !.paths = Append(@, st.path)]
         ELSE st
    ELSE LET entered == [st EXCEPT !.visited = @ \cup {currentNode},
                                   !.path = Append(@, currentNode)]
             after == hotDfsEdges(g, outEdges(g, currentNode), 1, entered)
         IN  [after EXCEPT !.path = SubSeq(@, 1, Len(@) - 1),
                           !.visited = @ \ {currentNode}]

hotDfsEdges(g, outs, i, st) ==
    IF Evaluated(st) /\ i > Len(outs) THEN st
    ELSE hotDfsEdges(g, outs, i + 1, hotDfs(g, outs[i].w, st))

findPathsFromNode(g, startNode) ==
    hotDfs(g, startNode, [paths |-> <<>>, visited |-> {}, path |-> <<>>]).paths

\* (graph.inEdges(nodeId)?.length || 0) + (graph.outEdges(nodeId)?.length || 0)
Degree(g, id) == Len(inEdges(g, id)) + Len(outEdges(g, id))

\* .sort((a, b) => b.degree - a.degree), a stable sort
RECURSIVE InsertByDegree(_, _, _, _)
InsertByDegree(g, sorted, id, i) ==
    IF i > Len(sorted) THEN Append(sorted, id)
    ELSE IF Degree(g, sorted[i]) < Degree(g, id)
         THEN SubSeq(sorted, 1, i - 1) \o <<id>> \o SubSeq(sorted, i, Len(sorted))
         ELSE InsertByDegree(g, sorted, id, i + 1)

RECURSIVE SortByDegree(_, _, _, _)
SortByDegree(g, ids, i, acc) ==
    IF Evaluated(acc) /\ i > Len(ids) THEN acc
    ELSE SortByDegree(g, ids, i + 1, InsertByDegree(g, acc, ids[i], 1))

\* The starting points: the nodes of degree above 2, highest degree first,
\* at most five
hotNodes(g) ==
    LET ids == [i \in 1..Len(g.nodes) |-> g.nodes[i].id]
        high == SelectSeq(ids, LAMBDA id : Degree(g, id) > HotDegree)
        sorted == SortByDegree(g, high, 1, <<>>)
    IN  SubSeq(sorted, 1, Min(Len(sorted), HotNodeCap))

\* for (const hotNode of hotNodes) allPaths.push(...paths.map(...))
RECURSIVE HotPathsOfGraph(_, _, _, _, _)
HotPathsOfGraph(g, language, starts, i, acc) ==
    IF Evaluated(acc) /\ i > Len(starts) THEN acc
    ELSE LET paths == findPathsFromNode(g, starts[i])
         IN  HotPathsOfGraph(g, language, starts, i + 1,
               acc \o [k \in 1..Len(paths) |->
                         [language |-> language, path |-> paths[k],
                          weight |-> Len(paths[k])]])

RECURSIVE HotPathsOfGraphs(_, _, _)
HotPathsOfGraphs(gs, i, acc) ==
    IF Evaluated(acc) /\ i > Len(gs) THEN acc
    ELSE HotPathsOfGraphs(gs, i + 1,
                          HotPathsOfGraph(gs[i], i, hotNodes(gs[i]), 1, acc))

findHotPaths(gs) ==
    LET allPaths == HotPathsOfGraphs(gs, 1, <<>>)
    IN  SubSeq(allPaths, 1, Min(Len(allPaths), HotPathCap))

\* GraphCommands.handleHotPathsCommand: hotPaths.slice(0, limit)
handleHotPathsCommand(gs, limit) ==
    LET found == findHotPaths(gs)
    IN  SubSeq(found, 1, Min(Len(found), limit))

(***************************************************************************)
(* Specification of hot_paths: a graph file over four nodes is loaded,     *)
(* then /hot-paths is asked with a limit.                                  *)
(***************************************************************************)
MaxHotEdges == 5

HotIds == <<<<"w">>, <<"x">>, <<"y">>, <<"z">>>>

\* Every edge between two different nodes, in the order a file lists them
HotEdgeCandidates ==
    LET n == Len(HotIds)
        pairs == SelectSeq([k \in 1..(n * n) |->
                              <<((k - 1) \div n) + 1, ((k - 1) % n) + 1>>],
                           LAMBDA p : p[1] # p[2])
    IN  [k \in 1..Len(pairs) |->
           ImportEdge(HotIds[pairs[k][1]], HotIds[pairs[k][2]], "imports")]

HotGraphFiles ==
    {<<[nodes |-> [i \in 1..Len(HotIds) |-> FileNode(HotIds[i])],
        edges |-> Chosen(HotEdgeCandidates, chosen, 1, <<>>)]>> :
       chosen \in {c \in SUBSET (1..Len(HotEdgeCandidates)) :
                     Cardinality(c) <= MaxHotEdges}}

SmallHotLimit == 1

HotLimits == {SmallHotLimit, DefaultHotLimit}

HotInit ==
    /\ graphFiles \in HotGraphFiles
    /\ graphs = <<>>
    /\ cycles = NotRun
    /\ hotPaths = NotRun

HotIdle == hotPaths = NotRun

\* /hot-paths --limit
HotPaths ==
    /\ graphs # <<>>
    /\ hotPaths = NotRun
    /\ \E limit \in HotLimits :
         hotPaths' = [limit |-> limit, value |-> handleHotPathsCommand(graphs, limit)]
    /\ UNCHANGED <<graphFiles, graphs, cycles>>

(***************************************************************************)
(* FastTreeSitter.parseFiles, parseLanguageBatch and parseWithRegex.  A    *)
(* file is [path, language, readable]; every file holds one import, of     *)
(* the module named after it.  The tree-sitter CLI is a process outside    *)
(* the program: it is not installed ("missing"), or rejects a batch that   *)
(* holds a file it cannot read ("strict"), or skips such a file            *)
(* ("lenient").                                                            *)
(***************************************************************************)
\* files.slice(0, Math.min(3, files.length))
TestBatchSize == 3

\* const batchSize = 20, here small enough for two batches to follow the
\* test batch
ParseBatchSize == 2

MaxParseFiles == 6

EmptyParse == [nodes |-> <<>>, edges |-> <<>>, warnings |-> <<>>, threw |-> FALSE]

\* addImportNode and parseTreeSitterOutput: one node and one edge of type
\* 'dependency' for the import of a file
ImportOf(file, via) ==
    [nodes |-> <<[file |-> file.path, via |-> via]>>,
     edges |-> <<[from |-> file.path, to |-> <<"m", file.path>>,
                  type |-> "dependency"]>>]

\* parseWithRegex without the try around a file: the failed read ends the
\* loop
RegexFileUnguarded(acc, file) ==
    IF acc.threw THEN acc
    ELSE IF file.readable
    THEN [acc EXCEPT !.nodes = @ \o ImportOf(file, "regex").nodes,
                     !.edges = @ \o ImportOf(file, "regex").edges]
    ELSE [acc EXCEPT !.threw = TRUE]

\* The body of parseWithRegex's loop: readFile and extractImportsWithRegex
\* in a try; a failed read is a warning
RegexFile(acc, file) ==
    IF acc.threw THEN acc
    ELSE IF file.readable
    THEN [acc EXCEPT !.nodes = @ \o ImportOf(file, "regex").nodes,
                     !.edges = @ \o ImportOf(file, "regex").edges]
    ELSE [acc EXCEPT !.warnings =
            Append(@, [file |-> file.path, language |-> file.language])]

RECURSIVE parseWithRegex(_, _, _)
parseWithRegex(files, i, acc) ==
    IF Evaluated(acc) /\ i > Len(files) THEN acc
    ELSE parseWithRegex(files, i + 1, RegexFile(acc, files[i]))

\* The captures tree-sitter prints for the files it can read
RECURSIVE TreeSitterOutput(_, _, _)
TreeSitterOutput(files, i, acc) ==
    IF Evaluated(acc) /\ i > Len(files) THEN acc
    ELSE TreeSitterOutput(files, i + 1,
           IF files[i].readable
           THEN [acc EXCEPT !.nodes = @ \o ImportOf(files[i], "treesitter").nodes,
                            !.edges = @ \o ImportOf(files[i], "treesitter").edges]
           ELSE acc)

\* runTreeSitterQuery: rejected when the process cannot be spawned or exits
\* with a code other than 0
runTreeSitterQuery(tool, files) ==
    IF \/ tool = "missing"
       \/ tool = "strict" /\ \E i \in 1..Len(files) : ~files[i].readable
    THEN [EmptyParse EXCEPT !.threw = TRUE]
    ELSE TreeSitterOutput(files, 1, EmptyParse)

Merge(acc, result) ==
    [acc EXCEPT !.nodes = @ \o result.nodes,
                !.edges = @ \o result.edges,
                !.warnings = @ \o result.warnings,
                !.threw = @ \/ result.threw]

\* The loop over the remaining files, batchSize at a time; a rejected
\* batch is parsed with the regular expressions
RECURSIVE RemainingBatches(_, _, _, _)
RemainingBatches(tool, remaining, i, acc) ==
    IF (Evaluated(acc) /\ i > Len(remaining)) \/ acc.threw THEN acc
    ELSE LET batch == SubSeq(remaining, i, Min(i + ParseBatchSize - 1, Len(remaining)))
             result == runTreeSitterQuery(tool, batch)
         IN  RemainingBatches(tool, remaining, i + ParseBatchSize,
               IF result.threw
               THEN Merge(acc, parseWithRegex(batch, 1, EmptyParse))
               ELSE Merge(acc, result))

\* parseLanguageBatch: throws without a query file; a rejected test batch
\* sends every file to the regular expressions
parseLanguageBatch(tool, hasQueryFile, files) ==
    IF ~hasQueryFile THEN [EmptyParse EXCEPT !.threw = TRUE]
    ELSE LET testBatch == SubSeq(files, 1, Min(TestBatchSize, Len(files)))
             testResult == runTreeSitterQuery(tool, testBatch)
         IN  IF testResult.threw THEN parseWithRegex(files, 1, EmptyParse)
             ELSE RemainingBatches(tool,
                                   SubSeq(files, Len(testBatch) + 1, Len(files)),
                                   1, testResult)

ParseLanguages == <<"javascript", "python">>

\* groupFilesByLanguage
LanguageFiles(files, lang) == SelectSeq(files, LAMBDA f : f.language = lang)

\* The loop of parseFiles over the languages: parseLanguageBatch, the
\* regular expressions when it throws, and a warning for the language when
\* they throw as well
RECURSIVE parseFilesFrom(_, _, _, _, _)
parseFilesFrom(tool, hasQueryFile, files, k, acc) ==
    IF Evaluated(acc) /\ k > Len(ParseLanguages) THEN acc
    ELSE LET langFiles == LanguageFiles(files, ParseLanguages[k])
             first == parseLanguageBatch(tool, hasQueryFile, langFiles)
             result == IF first.threw THEN parseWithRegex(langFiles, 1, EmptyParse)
                       ELSE first
         IN  parseFilesFrom(tool, hasQueryFile, files, k + 1,
               IF langFiles = <<>> THEN acc
               ELSE IF result.threw
               THEN [acc EXCEPT !.warnings =
                       Append(@, [file |-> 0, language |-> ParseLanguages[k]])]
               ELSE Merge(acc, result))

parseFiles(tool, hasQueryFile, files) ==
    parseFilesFrom(tool, hasQueryFile, files, 1, EmptyParse)

(***************************************************************************)
(* Specification of the extractor: one call of parseFiles                  *)
(***************************************************************************)
ParseTools == {"missing", "strict", "lenient"}

\* n files of one language, or of two in alternation; the files of
\* unreadable cannot be read
ParseInput(n, mixed, unreadable) ==
    [i \in 1..n |->
       [path |-> i,
        language |-> IF mixed /\ i % 2 = 0 THEN "python" ELSE "javascript",
        readable |-> i \notin unreadable]]

ParseInit ==
    /\ \E n \in 0..MaxParseFiles, mixed \in BOOLEAN :
         \E unreadable \in SUBSET (1..n), tool \in ParseTools,
            hasQueryFile \in BOOLEAN :
            parseInput = [files |-> ParseInput(n, mixed, unreadable),
                          tool |-> tool,
                          hasQueryFile |-> hasQueryFile]
    /\ parseResult = NotRun

ParseIdle ==
    /\ parseInput = [files |-> <<>>, tool |-> "missing", hasQueryFile |-> FALSE]
    /\ parseResult = NotRun

ParseFiles ==
    /\ parseResult = NotRun
    /\ parseResult' = parseFiles(parseInput.tool, parseInput.hasQueryFile,
                                 parseInput.files)
    /\ UNCHANGED parseInput

(***************************************************************************)
(* GraphCommands.executeCommand                                            *)
(***************************************************************************)
\* The cases of executeCommand's switch
KnownCommands ==
    {"/graph-overview", "/find-related", "/hot-paths", "/cycles",
     "/graph-stats", "/graph-health", "/dstart", "/dstop", "/gupdate",
     "/dstatus", "/clusters", "/cluster", "/cfile", "/csearch"}

\* What the graph tool, the cluster tools or the daemon helpers answer to a
\* handler: an exception, null, an empty list (or "not running"), a
\* non-empty answer (or "running", "healthy"), or { success: false }
CommandData == {"throws", "none", "empty", "some", "failed"}

\* formatError, formatSuccess, formatInfo and the format* methods: a type
\* and the message the content begins with ("" for a formatted report)
CommandResult(type, message) == [type |-> type, message |-> message, threw |-> FALSE]

Thrown == [type |-> "none", message |-> "", threw |-> TRUE]

\* A handler with its own try/catch
Guarded(result, message) ==
    IF result.threw THEN CommandResult("error", message) ELSE result

\* The handlers, by the command that selects them
HandleCommand(command, args, data) ==
    CASE command = "/graph-overview" ->
           IF data = "throws" THEN Thrown
           ELSE IF data = "none"
           THEN CommandResult("error", "No architecture data available")
           ELSE CommandResult("success", "")
      [] command = "/find-related" ->
           IF Len(args) = 0 THEN CommandResult("error", "Missing filename argument")
           ELSE IF data = "throws" THEN Thrown
           ELSE IF data = "some" THEN CommandResult("success", "")
           ELSE CommandResult("info", "No related files found for")
      [] command = "/hot-paths" ->
           IF data = "throws" THEN Thrown
           ELSE IF data = "some" THEN CommandResult("success", "")
           ELSE CommandResult("info", "No hot paths found")
      [] command = "/cycles" ->
           IF data = "throws" THEN Thrown
           ELSE IF data = "some" THEN CommandResult("warning", "")
           ELSE CommandResult("success", "No circular dependencies detected")
      [] command = "/graph-stats" ->
           IF data = "throws" THEN Thrown
           ELSE IF data = "none" THEN CommandResult("error", "No statistics available")
           ELSE CommandResult("info", "")
      [] command = "/graph-health" ->
           IF data = "throws" THEN Thrown
           ELSE CommandResult(IF data = "some" THEN "success" ELSE "error", "")
      [] command = "/dstart" ->
           Guarded(IF data = "throws" THEN Thrown
                   ELSE IF data = "some"
                   THEN CommandResult("info", "Daemon already running")
                   ELSE IF \E i \in 1..Len(args) : args[i] = "--background"
                   THEN IF data = "failed"
                        THEN CommandResult("error", "Failed to start daemon")
                        ELSE CommandResult("success", "Graph daemon started in background")
                   ELSE CommandResult("info", "Starting graph daemon..."),
                   "Failed to start daemon")
      [] command = "/dstop" ->
           Guarded(IF data = "throws" THEN Thrown
                   ELSE IF data = "some" THEN CommandResult("success", "Graph daemon stopped")
                   ELSE IF data = "failed"
                   THEN CommandResult("error", "Failed to stop daemon")
                   ELSE CommandResult("info", "Daemon not running"),
                   "Failed to stop daemon")
      [] command = "/gupdate" ->
           Guarded(IF data = "throws" THEN Thrown
                   ELSE IF data = "some" /\ ~\E i \in 1..Len(args) : args[i] = "--force"
                   THEN CommandResult("success", "Graph update triggered")
                   ELSE CommandResult("info", "Starting manual graph rebuild..."),
                   "Graph update failed")
      [] command = "/dstatus" ->
           Guarded(IF data = "throws" THEN Thrown
                   ELSE CommandResult(IF data = "some" THEN "success" ELSE "info", ""),
                   "Failed to get daemon status")
      [] command = "/clusters" ->
           Guarded(IF data = "throws" THEN Thrown
                   ELSE IF data = "failed"
                   THEN CommandResult("error", "Failed to load clusters")
                   ELSE CommandResult(IF data = "some" THEN "success" ELSE "info", ""),
                   "Cluster command failed")
      [] command = "/cluster" ->
           IF Len(args) = 0 THEN CommandResult("error", "Missing cluster ID")
           ELSE Guarded(IF data = "throws" THEN Thrown
                        ELSE IF data = "failed"
                        THEN CommandResult("error", "Failed to expand cluster")
                        ELSE CommandResult("success", ""),
                        "Cluster expansion failed")
      [] command = "/cfile" ->
           IF Len(args) = 0 THEN CommandResult("error", "Missing file path")
           ELSE Guarded(IF data = "throws" THEN Thrown
                        ELSE IF data = "failed"
                        THEN CommandResult("error", "Failed to get file info for")
                        ELSE CommandResult("success", ""),
                        "File details failed")
      [] command = "/csearch" ->
           IF Len(args) = 0 THEN CommandResult("error", "Missing search query")
           ELSE Guarded(IF data = "throws" THEN Thrown
                        ELSE IF data = "failed"
                        THEN CommandResult("error", "Search failed")
                        ELSE CommandResult(IF data = "some" THEN "success" ELSE "info", ""),
                        "Cluster search failed")
      [] OTHER -> CommandResult("error", "Unknown command")

\* What a handler does besides answering. handleGraphUpdateCommand sends
\* SIGUSR1 (refreshDaemon) to a running daemon unless --force is given; its
\* call of runGraphBuild stands after a return statement
CommandEffects(command, args, data) ==
    IF /\ command = "/gupdate"
       /\ data \in {"some", "failed"}
       /\ ~\E i \in 1..Len(args) : args[i] = "--force"
    THEN {"refresh"}
    ELSE {}

\* executeCommand without the catch around its switch
CatchCommandRethrow(result) == result

\* The catch around executeCommand's switch
CatchCommand(result) == Guarded(result, "Command failed")

\* executeCommand once this.initialized is settled
executeCommand(isInitialized, command, args, data) ==
    IF ~isInitialized THEN CommandResult("error", "Graph system not available")
    ELSE CatchCommand(HandleCommand(command, args, data))

\* The commands and arguments a caller sends: the commands of the switch,
\* the one the error's hint names and one nobody knows
SentCommands == KnownCommands \cup {"/graph-help", "/invalid-command"}

CommandArgs == {<<>>, <<"a">>, <<"--background">>, <<"--force">>}

CommandInit ==
    /\ commandsInitialized = FALSE
    /\ commandResult = NotRun

CommandIdle == CommandInit

\* One call of executeCommand: initialize() when not yet initialized, where
\* available is what graphTool.initialize() answers (an exception there is
\* caught and counts as false), then the switch
ExecuteCommand ==
    \E command \in SentCommands, args \in CommandArgs, data \in CommandData,
       available \in BOOLEAN :
       LET isInitialized == commandsInitialized \/ available
           result == executeCommand(isInitialized, command, args, data)
       IN  /\ commandsInitialized' = isInitialized
           /\ commandResult' = [command |-> command, args |-> args,
                                data |-> data,
                                initialized |-> isInitialized,
                                effects |-> IF isInitialized
                                            THEN CommandEffects(command, args, data)
                                            ELSE {},
                                type |-> result.type,
                                message |-> result.message,
                                threw |-> result.threw]

(***************************************************************************)
(* GraphClustering.detectCommunities, one node at a time                   *)
(***************************************************************************)
MaxDetectFiles == 8

NoGraph == [nodes |-> <<>>, edges |-> <<>>]

DetectIdle == detect = [pc |-> "idle", graph |-> NoGraph]

\* The inputs of the clusterer, up to MaxDetectFiles files; detect.graph is
\* the adjacency structure that detectCommunities is called with
DetectInit ==
    /\ \/ \E n \in 0..MaxDetectFiles, dup \in BOOLEAN :
            \E chosen \in SUBSET (1..Len(EdgeCandidates(n))) :
               graphData = [nodes |-> NodeList(n, dup),
                            edges |-> PickEdges(EdgeCandidates(n), chosen, 1, <<>>)]
       \/ \E chosen \in SUBSET (1..Len(BridgeEdges)) :
            graphData = [nodes |-> NodeList(BridgedFiles, FALSE),
                         edges |-> PickEdges(TriangleEdges \o BridgeEdges,
                                             (1..Len(TriangleEdges)) \cup
                                               {Len(TriangleEdges) + k : k \in chosen},
                                             1, <<>>)]
    /\ options = [targetReduction |-> DefaultTargetReduction,
                  minClusterSize |-> DefaultMinClusterSize,
                  smallProjectThreshold |-> DefaultSmallProjectThreshold]
    /\ superGraph = NotRun
    /\ detect = [pc |-> "idle", graph |-> buildAdjacencyGraph(graphData)]

\* Each node in its own community, improved = true, iteration = 0; still
\* counts the passes that moved no node
DetectBegin ==
    /\ detect.pc = "idle"
    /\ detect' = [pc |-> "while",
                  graph |-> detect.graph,
                  c |-> [n \in Range(detect.graph.nodes) |->
                           IndexOf(detect.graph.nodes, n) - 1],
                  improved |-> TRUE,
                  iteration |-> 0,
                  i |-> 0,
                  still |-> 0]

\* The while condition holds: improved = false, iteration++
DetectEnter ==
    /\ detect.pc = "while"
    /\ LoopContinues(detect.improved, detect.iteration)
    /\ detect' = [detect EXCEPT !.pc = "for", !.improved = FALSE,
                                !.iteration = @ + 1, !.i = 1]

\* One turn of the for loop
DetectVisit ==
    /\ detect.pc = "for"
    /\ detect.i <= Len(detect.graph.nodes)
    /\ LET st == VisitNode(detect.graph, detect.i,
                           [c |-> detect.c, improved |-> detect.improved])
       IN  detect' = [detect EXCEPT !.c = st.c, !.improved = st.improved,
                                    !.i = @ + 1]

\* The for loop is through
DetectPassed ==
    /\ detect.pc = "for"
    /\ detect.i > Len(detect.graph.nodes)
    /\ detect' = [detect EXCEPT !.pc = "while", !.i = 0,
                                !.still = IF detect.improved THEN @ ELSE @ + 1]

\* The while condition fails: groupCommunitiesById
DetectEnd ==
    /\ detect.pc = "while"
    /\ ~LoopContinues(detect.improved, detect.iteration)
    /\ detect' = [detect EXCEPT !.pc = "done"]

(***************************************************************************)
(* PerformanceOptimizer.batchProcess and limitConcurrency                  *)
(***************************************************************************)
MaxItems == 4

MaxBatchSize == 3

MaxConcurrency == 2

BatchProcessIdle ==
    job = [pc |-> "idle", items |-> 0, batchSize |-> 1, concurrency |-> 1]

\* A call of batchProcess with items 1..items and the options batchSize and
\* concurrency
BatchProcessInit ==
    \E n \in 0..MaxItems, b \in 1..MaxBatchSize, c \in 1..MaxConcurrency :
       job = [pc |-> "idle", items |-> n, batchSize |-> b, concurrency |-> c]

\* The items of the batch that begins with item first
BatchItems(first) == {i \in first..Min(first + job.batchSize - 1, job.items) : TRUE}

\* batchProcess is entered: createBatches, the for loop over the batches
\* begins. inFlight: the processor invocations begun and not yet settled;
\* executing: the array of limitConcurrency
CallBatchProcess ==
    /\ job.pc = "idle"
    /\ job' = [pc |-> "batch", items |-> job.items, batchSize |-> job.batchSize,
               concurrency |-> job.concurrency, first |-> 1, k |-> 0,
               inFlight |-> {}, executing |-> {}, raced |-> {}]

\* batch.map(item => processor(item)): the processor is invoked for every
\* item of the batch; then limitConcurrency is entered
MapBatch ==
    /\ job.pc = "batch"
    /\ job.first <= job.items
    /\ job' = [job EXCEPT !.pc = "limit",
                          !.inFlight = @ \cup BatchItems(job.first),
                          !.executing = {},
                          !.k = job.first]

\* One turn of limitConcurrency's for loop: the promise of item k is pushed
\* to executing; at the limit the loop awaits Promise.race(executing)
LimitTurn ==
    /\ job.pc = "limit"
    /\ job.k \in BatchItems(job.first)
    /\ LET executing == job.executing \cup {job.k}
       IN  job' = [job EXCEPT !.executing = executing,
                              !.k = @ + 1,
                              !.raced = executing,
                              !.pc = IF Cardinality(executing) >= job.concurrency
                                     THEN "race" ELSE "limit"]

\* The for loop is through: return Promise.all(results)
AwaitAll ==
    /\ job.pc = "limit"
    /\ job.k \notin BatchItems(job.first)
    /\ job' = [job EXCEPT !.pc = "all"]

\* A processor invocation settles while batchProcess awaits; its then
\* callback splices it out of executing
Settle ==
    /\ job.pc \in {"race", "all"}
    /\ \E i \in job.inFlight :
          job' = [job EXCEPT !.inFlight = @ \ {i}, !.executing = @ \ {i}]

\* Promise.race resolves: one of the promises it was given has settled;
\* the then callbacks of the settled promises have run
RaceResolves ==
    /\ job.pc = "race"
    /\ job.raced \ job.inFlight # {}
    /\ job' = [job EXCEPT !.pc = "limit", !.executing = @ \cap job.inFlight]

\* Promise.all resolves: the next batch
AllResolves ==
    /\ job.pc = "all"
    /\ BatchItems(job.first) \cap job.inFlight = {}
    /\ job' = [job EXCEPT !.pc = "batch", !.first = @ + job.batchSize]

\* No batch is left: return results
ReturnResults ==
    /\ job.pc = "batch"
    /\ job.first > job.items
    /\ job' = [job EXCEPT !.pc = "done"]

(***************************************************************************)
(* ToolInterceptor: the Task, Grep and Read tools wrapped with graph       *)
(* suggestions.  A call counts how often it invokes the original tool      *)
(* function.                                                               *)
(***************************************************************************)
MaxToolCalls == 3

\* What the original tool function does when it is invoked: it resolves to
\* a text, to a text of more than 5000 characters, to undefined, or rejects
OriginalKinds == {"text", "long", "nothing", "throws"}

\* Confidences in tenths
ConfidenceThreshold == 3

\* What toolSelector.selectBestTool resolves to, or "throws"
Enhancements ==
    {[status |-> "throws"]} \cup
    [status : {"ok"}, enhanced : BOOLEAN, confidence : {2, 3, 8},
     files : {0, 2}, strategy : {"direct", "escalate_to_clusters"}]

\* What graphTool.suggestRelevantFiles and graphTool.findRelatedFiles
\* resolve to: a number of files, or "throws"
Suggestions ==
    {[status |-> "throws"]} \cup [status : {"ok"}, files : {0, 2}]

\* One invocation of the original function added to a call's record
Invoke(call, original) ==
    [call EXCEPT !.invocations = @ + 1,
                 !.outcome = IF original = "throws" THEN "threw" ELSE "returned",
                 !.result = original]

\* enhanceTaskWithGraph: the original runs, then the insights are appended;
\* result.length of an undefined result throws
enhanceTaskWithGraph(call, original, enhancement) ==
    LET ran == Invoke(call, original)
    IN  IF ran.outcome = "threw" THEN ran
        ELSE LET insights == enhancement.files > 0
                 noLength == ran.result = "nothing" /\ ~insights
             IN  IF noLength THEN [ran EXCEPT !.outcome = "threw"]
                 ELSE [ran EXCEPT !.enhanced = TRUE,
                                  !.result = IF insights THEN "text with insights"
                                             ELSE @]

\* interceptTask: the try block holds the enhanced call; whatever it throws
\* is caught, and the fallback after the catch invokes the original
interceptTask(call, skip, original, enhancement) ==
    IF skip THEN Invoke(call, original)
    ELSE IF enhancement.status = "throws" THEN Invoke(call, original)
    ELSE IF enhancement.enhanced /\ enhancement.confidence > ConfidenceThreshold
         THEN LET tried == enhanceTaskWithGraph(call, original, enhancement)
              IN  IF tried.outcome = "threw" THEN Invoke(tried, original)
                  ELSE tried
         ELSE Invoke(call, original)

\* enhanceGrepWithGraph: the original runs, the priority files are appended
enhanceGrepWithGraph(call, original) ==
    LET ran == Invoke(call, original)
    IN  IF ran.outcome = "threw" THEN ran
        ELSE [ran EXCEPT !.enhanced = TRUE, !.result = "text with priorities"]

interceptGrep(call, skip, original, relevantFiles) ==
    IF skip THEN Invoke(call, original)
    ELSE IF relevantFiles.status = "throws" THEN Invoke(call, original)
    ELSE IF relevantFiles.files > 0
         THEN LET tried == enhanceGrepWithGraph(call, original)
              IN  IF tried.outcome = "threw" THEN Invoke(tried, original)
                  ELSE tried
         ELSE Invoke(call, original)

\* interceptRead: the original runs first, outside the try block
interceptRead(call, skip, original, relatedFiles) ==
    LET ran == Invoke(call, original)
    IN  IF ran.outcome = "threw" \/ skip THEN ran
        ELSE IF relatedFiles.status = "ok" /\ relatedFiles.files > 0
             THEN [ran EXCEPT !.enhanced = TRUE, !.result = "text with related"]
             ELSE ran

NewCall(tool, original) ==
    [tool |-> tool, original |-> original, invocations |-> 0,
     outcome |-> "none", result |-> "none", enhanced |-> FALSE,
     skipped |-> FALSE, failed |-> FALSE]

InterceptInit ==
    /\ interceptor = [initialized |-> FALSE, interceptActive |-> TRUE,
                      toolCalls |-> 0, graphEnhanced |-> 0]
    /\ intercepted = NotRun

InterceptIdle ==
    /\ interceptor = [initialized |-> FALSE, interceptActive |-> TRUE,
                      toolCalls |-> 0, graphEnhanced |-> 0]
    /\ intercepted = NotRun

\* ToolInterceptor.initialize: the selector and the cluster tools come up,
\* or one of them throws
InterceptorInitialize ==
    /\ \E ok \in BOOLEAN : interceptor' = [interceptor EXCEPT !.initialized = ok]
    /\ UNCHANGED intercepted

SetInterceptionActive ==
    /\ \E active \in BOOLEAN :
         interceptor' = [interceptor EXCEPT !.interceptActive = active]
    /\ UNCHANGED intercepted

Skips == ~interceptor.initialized \/ ~interceptor.interceptActive

InterceptTask ==
    /\ interceptor.toolCalls < MaxToolCalls
    /\ \E original \in OriginalKinds, enhancement \in Enhancements :
         LET done == interceptTask(NewCall("Task", original), Skips, original,
                                   enhancement)
             counted == ~Skips /\ enhancement.status = "ok"
                        /\ enhancement.enhanced
                        /\ enhancement.confidence > ConfidenceThreshold
         IN  /\ intercepted' = [done EXCEPT
                                  !.skipped = Skips,
                                  !.failed = ~Skips /\ enhancement.status = "throws"]
             /\ interceptor' = [interceptor EXCEPT
                                  !.toolCalls = @ + 1,
                                  !.graphEnhanced = IF counted THEN @ + 1 ELSE @]

InterceptGrep ==
    /\ interceptor.toolCalls < MaxToolCalls
    /\ \E original \in OriginalKinds, relevantFiles \in Suggestions :
         LET done == interceptGrep(NewCall("Grep", original), Skips, original,
                                   relevantFiles)
         IN  /\ intercepted' = [done EXCEPT
                                  !.skipped = Skips,
                                  !.failed = ~Skips /\ relevantFiles.status = "throws"]
             /\ interceptor' = [interceptor EXCEPT !.toolCalls = @ + 1]

InterceptRead ==
    /\ interceptor.toolCalls < MaxToolCalls
    /\ \E original \in OriginalKinds, relatedFiles \in Suggestions :
         LET done == interceptRead(NewCall("Read", original), Skips, original,
                                   relatedFiles)
         IN  /\ intercepted' = [done EXCEPT
                                  !.skipped = Skips,
                                  !.failed = ~Skips /\ relatedFiles.status = "throws"]
             /\ interceptor' = [interceptor EXCEPT
                                  !.toolCalls = @ + 1,
                                  !.graphEnhanced = IF done.enhanced THEN @ + 1 ELSE @]

(***************************************************************************)
(* TodoMonitor: a snapshot of the todos is compared every second with the  *)
(* current todos, and every difference is handed to the todo bridge.  A    *)
(* periodic check is an async function: it gives way at each await, and    *)
(* the timer does not wait for it.                                         *)
(***************************************************************************)
TodoIds == {1, 2, 3}

MaxStarts == 2

MaxChecks == 2

MaxForwarded == 4

\* The list getCurrentTodos is written to return: todo 1 is pending, todo 2
\* completed, and there is no todo 3
TestTodos ==
    [id \in TodoIds |-> IF id = 1 THEN "pending"
                        ELSE IF id = 2 THEN "completed" ELSE "none"]

NoSnapshot == [id \in TodoIds |-> "unset"]

\* getCurrentTodos returns its fixed list; where it is wired to the todo
\* system, as its comment asks, it returns that system's list
getCurrentTodos ==
    IF monitor.integrated THEN todos ELSE TestTodos

\* The todos changed since monitoring began
Written == {id \in TodoIds : todos[id] # TestTodos[id]}

\* One loop of detectChanges over the ids in list order
RECURSIVE ChangesOf(_, _, _, _, _)
ChangesOf(operation, oldTodos, newTodos, id, acc) ==
    IF id \notin TodoIds THEN acc
    ELSE LET old == oldTodos[id]
             new == newTodos[id]
             hit == CASE operation = "created" -> old = "none" /\ new # "none"
                      [] operation = "modified" ->
                            old # "none" /\ new # "none" /\ old # new
                      [] OTHER -> old # "none" /\ new = "none"
             todo == IF operation = "deleted" THEN old ELSE new
         IN  ChangesOf(operation, oldTodos, newTodos, id + 1,
                       IF hit
                       THEN Append(acc, [type |-> "TodoWrite",
                                         operation |-> operation,
                                         id |-> id, status |-> todo])
                       ELSE acc)

\* detectChanges: the created todos, then the modified, then the deleted
detectChanges(oldTodos, newTodos) ==
    ChangesOf("deleted", oldTodos, newTodos, 1,
      ChangesOf("modified", oldTodos, newTodos, 1,
        ChangesOf("created", oldTodos, newTodos, 1, <<>>)))

IdleCheck ==
    [pc |-> "idle", currentTodos |-> NoSnapshot, changes |-> <<>>, i |-> 0,
     epoch |-> {}]

TodoInit ==
    /\ todos = TestTodos
    /\ \E integrated \in BOOLEAN :
         monitor = [integrated |-> integrated, monitoringActive |-> FALSE,
                    lastTodoSnapshot |-> NoSnapshot, intervals |-> 0,
                    starts |-> 0, pc |-> "idle", read |-> NoSnapshot,
                    checked |-> {}]
    /\ checks = [c \in 1..MaxChecks |-> IdleCheck]
    /\ forwarded = <<>>

TodoIdle ==
    /\ todos = TestTodos
    /\ monitor = [integrated |-> FALSE, monitoringActive |-> FALSE,
                  lastTodoSnapshot |-> NoSnapshot, intervals |-> 0,
                  starts |-> 0, pc |-> "idle", read |-> NoSnapshot,
                  checked |-> {}]
    /\ checks = [c \in 1..MaxChecks |-> IdleCheck]
    /\ forwarded = <<>>

\* The todo system creates, modifies or deletes a todo while the monitor
\* runs; each id once
TodoWrite ==
    /\ monitor.intervals > 0
    /\ \E id \in TodoIds \ Written, status \in {"none", "pending", "completed"} :
         /\ status # todos[id]
         /\ todos' = [todos EXCEPT ![id] = status]
    /\ UNCHANGED <<monitor, checks, forwarded>>

\* startMonitoring up to its first await
StartMonitoring ==
    /\ monitor.pc = "idle"
    /\ monitor.starts < MaxStarts
    /\ monitor' = [monitor EXCEPT !.monitoringActive = TRUE,
                                  !.starts = @ + 1,
                                  !.pc = "snapshot",
                                  !.read = getCurrentTodos]
    /\ UNCHANGED <<todos, checks, forwarded>>

\* startMonitoring after the await: the snapshot is set and one more
\* interval timer runs; the handle of an earlier one is overwritten
StartInterval ==
    /\ monitor.pc = "snapshot"
    /\ monitor' = [monitor EXCEPT !.lastTodoSnapshot = monitor.read,
                                  !.intervals = @ + 1,
                                  !.pc = "idle",
                                  !.read = NoSnapshot]
    /\ UNCHANGED <<todos, checks, forwarded>>

\* A timer fires: checkForTodoChanges up to await getCurrentTodos()
TimerTick ==
    /\ monitor.intervals > 0
    /\ monitor.monitoringActive
    /\ \E c \in 1..MaxChecks :
         /\ checks[c].pc = "idle"
         /\ checks' = [checks EXCEPT ![c] = [pc |-> "read",
                                             currentTodos |-> getCurrentTodos,
                                             changes |-> <<>>, i |-> 0,
                                             epoch |-> Written]]
    /\ UNCHANGED <<todos, monitor, forwarded>>

\* The end of a check: this.lastTodoSnapshot = currentTodos
Finished(c) ==
    /\ monitor' = [monitor EXCEPT !.lastTodoSnapshot = checks[c].currentTodos,
                                  !.checked = @ \cup checks[c].epoch]
    /\ checks' = [checks EXCEPT ![c] = IdleCheck]

\* The check goes on with the todos it read: the changes against the
\* snapshot as it is now, and the bridge called with the first of them
Detect(c) ==
    /\ checks[c].pc = "read"
    /\ Len(forwarded) < MaxForwarded
    /\ LET changes == detectChanges(monitor.lastTodoSnapshot,
                                    checks[c].currentTodos)
       IN  IF changes = <<>>
           THEN Finished(c) /\ UNCHANGED forwarded
           ELSE /\ forwarded' = Append(forwarded, changes[1])
                /\ checks' = [checks EXCEPT ![c].pc = "forward",
                                            ![c].changes = changes,
                                            ![c].i = 1]
                /\ UNCHANGED monitor
    /\ UNCHANGED todos

\* The bridge and the log have answered for change i: the next change is
\* handed over, or the check ends
Forwarded(c) ==
    /\ checks[c].pc = "forward"
    /\ Len(forwarded) < MaxForwarded
    /\ IF checks[c].i < Len(checks[c].changes)
       THEN /\ forwarded' = Append(forwarded, checks[c].changes[checks[c].i + 1])
            /\ checks' = [checks EXCEPT ![c].i = @ + 1]
            /\ UNCHANGED monitor
       ELSE Finished(c) /\ UNCHANGED forwarded
    /\ UNCHANGED todos

(***************************************************************************)
(* Specifications                                                          *)
(***************************************************************************)
\* The variables each specification leaves alone
outsideCluster == <<cycleVars, relatedVars, daemonVars, saveVars, storeVars, hotVars, parseVars, commandVars, detectVars, batchProcessVars, interceptVars, todoVars>>

outsideCycles == <<clusterVars, relatedVars, daemonVars, saveVars, storeVars, hotVars, parseVars, commandVars, detectVars, batchProcessVars, interceptVars, todoVars>>

outsideRelated == <<clusterVars, daemonVars, saveVars, storeVars, hotVars, parseVars, commandVars, detectVars, batchProcessVars, interceptVars, todoVars>>

outsideDaemon == <<clusterVars, cycleVars, relatedVars, saveVars, storeVars, hotVars, parseVars, commandVars, detectVars, batchProcessVars, interceptVars, todoVars>>

outsideSave == <<clusterVars, cycleVars, relatedVars, daemonVars, storeVars, hotVars, parseVars, commandVars, detectVars, batchProcessVars, interceptVars, todoVars>>

outsideStore == <<clusterVars, cycleVars, relatedVars, daemonVars, saveVars, hotVars, parseVars, commandVars, detectVars, batchProcessVars, interceptVars, todoVars>>

outsideHot == <<clusterVars, relatedVars, daemonVars, saveVars, storeVars, parseVars, commandVars, detectVars, batchProcessVars, interceptVars, todoVars>>

outsideParse == <<clusterVars, cycleVars, relatedVars, daemonVars, saveVars, storeVars, hotVars, commandVars, detectVars, batchProcessVars, interceptVars, todoVars>>

outsideCommand == <<clusterVars, cycleVars, relatedVars, daemonVars, saveVars, storeVars, hotVars, parseVars, detectVars, batchProcessVars, interceptVars, todoVars>>

outsideDetect == <<clusterVars, cycleVars, relatedVars, daemonVars, saveVars, storeVars, hotVars, parseVars, commandVars, batchProcessVars, interceptVars, todoVars>>

outsideBatchProcess == <<clusterVars, cycleVars, relatedVars, daemonVars, saveVars, storeVars, hotVars, parseVars, commandVars, detectVars, interceptVars, todoVars>>

outsideIntercept == <<clusterVars, cycleVars, relatedVars, daemonVars, saveVars, storeVars, hotVars, parseVars, commandVars, detectVars, batchProcessVars, todoVars>>

outsideTodo == <<clusterVars, cycleVars, relatedVars, daemonVars, saveVars, storeVars, hotVars, parseVars, commandVars, detectVars, batchProcessVars, interceptVars>>

ClusterNext == GenerateSuperGraph /\ UNCHANGED outsideCluster

ClusterStart == ClusterInit /\ CycleIdle /\ RelatedIdle /\ DaemonIdle /\ SaveIdle /\ StoreIdle /\ HotIdle /\ ParseIdle /\ CommandIdle /\ DetectIdle /\ BatchProcessIdle /\ InterceptIdle /\ TodoIdle

SpecCluster == ClusterStart /\ [][ClusterNext]_vars

CycleNext ==
    \/ LoadAllGraphs /\ UNCHANGED outsideCycles
    \/ DetectCycles /\ UNCHANGED outsideCycles

CycleStart == CycleInit /\ ClusterIdle /\ RelatedIdle /\ DaemonIdle /\ SaveIdle /\ StoreIdle /\ HotIdle /\ ParseIdle /\ CommandIdle /\ DetectIdle /\ BatchProcessIdle /\ InterceptIdle /\ TodoIdle

SpecCycles == CycleStart /\ [][CycleNext]_vars

RelatedNext ==
    \/ Initialize /\ UNCHANGED outsideRelated
    \/ FindRelated /\ UNCHANGED outsideRelated

RelatedStart == RelatedInit /\ ClusterIdle /\ DaemonIdle /\ SaveIdle /\ StoreIdle /\ HotIdle /\ ParseIdle /\ CommandIdle /\ DetectIdle /\ BatchProcessIdle /\ InterceptIdle /\ TodoIdle

SpecRelated == RelatedStart /\ [][RelatedNext]_vars

ReloadNext ==
    \/ Initialize /\ UNCHANGED outsideRelated
    \/ FindRelated /\ UNCHANGED outsideRelated
    \/ GraphsChange /\ UNCHANGED outsideRelated
    \/ Reload /\ UNCHANGED outsideRelated
    \/ FindRelatedAgain /\ UNCHANGED outsideRelated

SpecReload == RelatedStart /\ [][ReloadNext]_vars

DaemonNext ==
    \/ \E c \in Clients : \E cmd \in CommandsOf(c) : Begin(c, cmd) /\ UNCHANGED outsideDaemon
    \/ \E c \in Clients : Access(c) /\ UNCHANGED outsideDaemon
    \/ \E c \in Clients : ReadLock(c) /\ UNCHANGED outsideDaemon
    \/ \E c \in Clients : Probe(c) /\ UNCHANGED outsideDaemon
    \/ \E c \in Clients : Unlink(c) /\ UNCHANGED outsideDaemon
    \/ \E c \in Clients : Spawn(c) /\ UNCHANGED outsideDaemon
    \/ \E c \in Clients : Signal(c) /\ UNCHANGED outsideDaemon
    \/ \E c \in Clients : Recheck(c) /\ UNCHANGED outsideDaemon
    \/ \E p \in Pids : Acquire(p) /\ UNCHANGED outsideDaemon
    \/ \E p \in Pids : BeginBatch(p) /\ UNCHANGED outsideDaemon
    \/ \E p \in Pids : FinishBatch(p) /\ UNCHANGED outsideDaemon
    \/ \E p \in Pids : Snapshot(p) /\ UNCHANGED outsideDaemon
    \/ \E p \in Pids : ReleaseLock(p) /\ UNCHANGED outsideDaemon
    \/ \E p \in Pids : Exit(p) /\ UNCHANGED outsideDaemon

DaemonStart == DaemonIdle /\ ClusterIdle /\ CycleIdle /\ RelatedIdle /\ SaveIdle /\ StoreIdle /\ HotIdle /\ ParseIdle /\ CommandIdle /\ DetectIdle /\ BatchProcessIdle /\ InterceptIdle /\ TodoIdle

SpecDaemon == DaemonStart /\ [][DaemonNext]_vars

SaveNext ==
    \/ SaveClusters /\ UNCHANGED outsideSave
    \/ OpenFile /\ UNCHANGED outsideSave
    \/ WriteFile /\ UNCHANGED outsideSave
    \/ KillWriter /\ UNCHANGED outsideSave
    \/ RestartWriter /\ UNCHANGED outsideSave
    \/ \E a \in Artifacts : LoadArtifact(a) /\ UNCHANGED outsideSave

SaveStart == SaveIdle /\ ClusterIdle /\ CycleIdle /\ RelatedIdle /\ DaemonIdle /\ StoreIdle /\ HotIdle /\ ParseIdle /\ CommandIdle /\ DetectIdle /\ BatchProcessIdle /\ InterceptIdle /\ TodoIdle

SpecSave == SaveStart /\ [][SaveNext]_vars

StoreNext ==
    \/ \E f \in StoreFiles, bytes \in FileContents :
          SaveFile(f, bytes) /\ UNCHANGED outsideStore
    \/ \E f \in StoreFiles : DeleteFile(f) /\ UNCHANGED outsideStore
    \/ Tick /\ UNCHANGED outsideStore
    \/ Drain /\ UNCHANGED outsideStore
    \/ ApplyNext /\ UNCHANGED outsideStore

StoreStart == StoreIdle /\ ClusterIdle /\ CycleIdle /\ RelatedIdle /\ DaemonIdle /\ SaveIdle /\ HotIdle /\ ParseIdle /\ CommandIdle /\ DetectIdle /\ BatchProcessIdle /\ InterceptIdle /\ TodoIdle

SpecStore == StoreStart /\ [][StoreNext]_vars

HotNext ==
    \/ LoadAllGraphs /\ UNCHANGED <<outsideHot, hotVars>>
    \/ HotPaths /\ UNCHANGED outsideHot

HotStart == HotInit /\ ClusterIdle /\ RelatedIdle /\ DaemonIdle /\ SaveIdle /\ StoreIdle /\ ParseIdle /\ CommandIdle /\ DetectIdle /\ BatchProcessIdle /\ InterceptIdle /\ TodoIdle

SpecHot == HotStart /\ [][HotNext]_vars

ParseNext == ParseFiles /\ UNCHANGED outsideParse

ParseStart ==
    ParseInit /\ ClusterIdle /\ CycleIdle /\ RelatedIdle /\ DaemonIdle /\ SaveIdle /\ StoreIdle /\ HotIdle /\ CommandIdle /\ DetectIdle /\ BatchProcessIdle /\ InterceptIdle /\ TodoIdle

SpecParse == ParseStart /\ [][ParseNext]_vars

CommandNext == ExecuteCommand /\ UNCHANGED outsideCommand

CommandStart ==
    CommandInit /\ ClusterIdle /\ CycleIdle /\ RelatedIdle /\ DaemonIdle /\ SaveIdle /\ StoreIdle /\ HotIdle /\ ParseIdle /\ DetectIdle /\ BatchProcessIdle /\ InterceptIdle /\ TodoIdle

SpecCommand == CommandStart /\ [][CommandNext]_vars

DetectNext ==
    \/ DetectBegin /\ UNCHANGED outsideDetect
    \/ DetectEnter /\ UNCHANGED outsideDetect
    \/ DetectVisit /\ UNCHANGED outsideDetect
    \/ DetectPassed /\ UNCHANGED outsideDetect
    \/ DetectEnd /\ UNCHANGED outsideDetect

DetectStart ==
    DetectInit /\ CycleIdle /\ RelatedIdle /\ DaemonIdle /\ SaveIdle /\ StoreIdle /\ HotIdle /\ ParseIdle /\ CommandIdle /\ BatchProcessIdle /\ InterceptIdle /\ TodoIdle

\* The loop is synchronous code: once entered it runs on
SpecDetect == DetectStart /\ [][DetectNext]_vars /\ WF_vars(DetectNext)

BatchProcessNext ==
    \/ CallBatchProcess /\ UNCHANGED outsideBatchProcess
    \/ MapBatch /\ UNCHANGED outsideBatchProcess
    \/ LimitTurn /\ UNCHANGED outsideBatchProcess
    \/ AwaitAll /\ UNCHANGED outsideBatchProcess
    \/ Settle /\ UNCHANGED outsideBatchProcess
    \/ RaceResolves /\ UNCHANGED outsideBatchProcess
    \/ AllResolves /\ UNCHANGED outsideBatchProcess
    \/ ReturnResults /\ UNCHANGED outsideBatchProcess

BatchProcessStart ==
    BatchProcessInit /\ ClusterIdle /\ CycleIdle /\ RelatedIdle /\ DaemonIdle /\ SaveIdle /\ StoreIdle /\ HotIdle /\ ParseIdle /\ CommandIdle /\ DetectIdle /\ InterceptIdle /\ TodoIdle

SpecBatchProcess == BatchProcessStart /\ [][BatchProcessNext]_vars

InterceptNext ==
    \/ InterceptorInitialize /\ UNCHANGED outsideIntercept
    \/ SetInterceptionActive /\ UNCHANGED outsideIntercept
    \/ InterceptTask /\ UNCHANGED outsideIntercept
    \/ InterceptGrep /\ UNCHANGED outsideIntercept
    \/ InterceptRead /\ UNCHANGED outsideIntercept

InterceptStart ==
    InterceptInit /\ ClusterIdle /\ CycleIdle /\ RelatedIdle /\ DaemonIdle /\ SaveIdle /\ StoreIdle /\ HotIdle /\ ParseIdle /\ CommandIdle /\ DetectIdle /\ BatchProcessIdle /\ TodoIdle

SpecIntercept == InterceptStart /\ [][InterceptNext]_vars

TodoNext ==
    \/ TodoWrite /\ UNCHANGED outsideTodo
    \/ StartMonitoring /\ UNCHANGED outsideTodo
    \/ StartInterval /\ UNCHANGED outsideTodo
    \/ TimerTick /\ UNCHANGED outsideTodo
    \/ \E c \in 1..MaxChecks : Detect(c) /\ UNCHANGED outsideTodo
    \/ \E c \in 1..MaxChecks : Forwarded(c) /\ UNCHANGED outsideTodo

TodoStart ==
    TodoInit /\ ClusterIdle /\ CycleIdle /\ RelatedIdle /\ DaemonIdle /\ SaveIdle /\ StoreIdle /\ HotIdle /\ ParseIdle /\ CommandIdle /\ DetectIdle /\ BatchProcessIdle /\ InterceptIdle

SpecTodo == TodoStart /\ [][TodoNext]_vars

(***************************************************************************)
(* Properties of cycle detection                                           *)
(***************************************************************************)
EdgePairs(g) == {<<g.edges[i].v, g.edges[i].w>> : i \in 1..Len(g.edges)}

\* A topological order: a ranking of the nodes that every edge ascends
HasTopologicalOrder(g) ==
    \E rank \in [NodeIds(g) -> 1..Cardinality(NodeIds(g))] :
        \A e \in EdgePairs(g) : rank[e[1]] < rank[e[2]]

\* C2: once the graphs are loaded and hold at least one edge, detectCycles
\* returns the empty list exactly when every loaded graph has a topological
\* order over its edges.
CyclesEmptyIffAcyclic ==
    (cycles # NotRun /\ \E i \in 1..Len(graphs) : graphs[i].edges # <<>>)
    => ((cycles.value = <<>>) <=>
        (\A i \in 1..Len(graphs) : HasTopologicalOrder(graphs[i])))

\* C2 witness: a three-node cycle x -> y -> z -> x was reported, and so was
\* nothing else
CyclesEmptyIffAcyclicWitness ==
    /\ cycles # NotRun
    /\ Len(cycles.value) = 1
    /\ cycles.value[1].length = 3

\* C2 witness of the other direction is an acyclic graph of three edges
\* for which the empty list came back
AcyclicReportedEmpty ==
    /\ cycles # NotRun
    /\ cycles.value = <<>>
    /\ Len(graphs[1].edges) = 3

(***************************************************************************)
(* Properties of find_related                                              *)
(***************************************************************************)
\* The characters of the paths in the order of their code units
CharOrder == <<".", "/", "a", "b", "c", "d", "e", "f", "g", "h", "i", "j",
               "k", "l", "m", "n", "o", "p", "q", "r", "s", "t", "u", "v",
               "w", "x", "y", "z">>

CharRank(c) == CHOOSE i \in 1..Len(CharOrder) : CharOrder[i] = c

\* p <= q as strings
RECURSIVE PathLeq(_, _)
PathLeq(p, q) ==
    IF p = <<>> THEN TRUE
    ELSE IF q = <<>> THEN FALSE
    ELSE IF p[1] # q[1] THEN CharRank(p[1]) < CharRank(q[1])
    ELSE PathLeq(Tail(p), Tail(q))

\* The order in which the service's traversal reaches the files
TraversalOf(r) ==
    RelatedSearch(graphs, r.targetFile,
                  [maxDepth |-> r.options.depth,
                   relationTypes |-> r.options.types,
                   includeReverse |-> r.options.includeReverse]).value

TraversalIndex(r, path) ==
    CHOOSE i \in 1..Len(TraversalOf(r)) : TraversalOf(r)[i].path = path

\* C9 as claimed: the result is sorted by confidence, highest first, and
\* results of equal confidence are sorted by path.
SortedByConfidenceThenPath ==
    related # NotRun =>
      \A i, j \in 1..Len(related.value) :
        i < j =>
          \/ related.value[i].confidence > related.value[j].confidence
          \/ /\ related.value[i].confidence = related.value[j].confidence
             /\ PathLeq(related.value[i].path, related.value[j].path)

\* C9 as amended: the result is sorted by confidence, highest first, and
\* results of equal confidence keep the order in which the traversal reached
\* them (the sort is stable and compares nothing but the confidence).
SortedByConfidenceStable ==
    related # NotRun =>
      \A i, j \in 1..Len(related.value) :
        i < j =>
          /\ related.value[i].confidence >= related.value[j].confidence
          /\ TraversalIndex(related, related.value[i].path)
               < TraversalIndex(related, related.value[j].path)

\* C9 witness: a result with two confidences in which two results of equal
\* confidence stand against the order of their paths
SortedByConfidenceStableWitness ==
    /\ related # NotRun
    /\ \E i, j \in 1..Len(related.value) :
         /\ i < j
         /\ related.value[i].confidence = related.value[j].confidence
         /\ ~PathLeq(related.value[i].path, related.value[j].path)
    /\ \E i, j \in 1..Len(related.value) :
         related.value[i].confidence > related.value[j].confidence

\* C10 as claimed: a file reached at depth 1 has confidence 1.0 and no
\* confidence is below 0.1.
DepthOneHasFullConfidence ==
    related # NotRun =>
      \A i \in 1..Len(related.value) :
        /\ related.value[i].depth = 1 => related.value[i].confidence = ConfidenceStart
        /\ related.value[i].confidence >= ConfidenceFloor

\* C10 as amended: the confidence is 1 less 0.2 per hop from the starting
\* file, which itself is not reported: 0.8 at depth 1, 0.6, 0.4 and 0.2 at
\* depths 2 to 4, and the floor 0.1 from depth 5 on; none is below 0.1.
ConfidenceDecaysFromStart ==
    related # NotRun =>
      \A i \in 1..Len(related.value) :
        LET r == related.value[i]
        IN  /\ r.depth >= 1
            /\ r.depth = 1 => r.confidence = 8
            /\ r.depth = 2 => r.confidence = 6
            /\ r.depth = 3 => r.confidence = 4
            /\ r.depth = 4 => r.confidence = 2
            /\ r.depth >= 5 => r.confidence = 1
            /\ r.confidence >= 1

\* C10 witness: one result at depth 1 and one at depth 5, where the floor
\* is in effect
ConfidenceDecaysFromStartWitness ==
    /\ related # NotRun
    /\ \E i \in 1..Len(related.value) : related.value[i].depth = 1
    /\ \E i \in 1..Len(related.value) : related.value[i].depth = 5

(***************************************************************************)
(* Properties of the daemon and its lock                                   *)
(***************************************************************************)
LockHolders == {p \in Pids : HoldsLock(p)}

\* C3: a daemon start is refused whenever the lock file exists and the
\* process whose PID it contains is alive, so that at most one daemon holds
\* the graph directory's lock at any time.
AtMostOneLockHolder == Cardinality(LockHolders) <= 1

\* C8: a daemon that was sent the stop signal and is gone has finished the
\* batch that was in flight, written its snapshot and released the lock
\* before it exited: it is never gone with a batch half applied or with the
\* lock file still naming it.
StoppedDaemonExitsClean ==
    \A p \in Pids :
      (procs[p].term /\ ~Alive(p)) =>
         /\ procs[p].pc = "exited"
         /\ lockFile # p

(***************************************************************************)
(* Properties of the artifacts on disk                                     *)
(***************************************************************************)
\* C4: a reader never observes a partially written artifact, and when the
\* writer has been killed inside a snapshot every artifact on disk is the
\* whole artifact of the snapshot before.
SnapshotNeverPartial ==
    /\ ~observed.part
    /\ writer.pc = "killed" =>
         \A a \in Artifacts :
            /\ ~disk[a].part
            /\ disk[a].gen = writer.gen - 1

(***************************************************************************)
(* Properties of the scheduler and the Graph Store                         *)
(***************************************************************************)
EdgesOf(f) == {e \in store : e.source = f}

\* C5: the Graph Store contains exactly the edges produced by the last
\* successful extraction of each live source file; no edge of an earlier
\* extraction or of a removed file is left.
StoreHoldsLastExtraction ==
    store = UNION {extracted[f].edges : f \in StoreFiles}

\* A file was applied with two edges, then re-applied with one of them
StoreHoldsLastExtractionWitness ==
    \E i, j \in 1..Len(log) :
        /\ i < j
        /\ log[i].file = log[j].file
        /\ log[i].kind # "deleted" /\ log[i].bytes = "two"
        /\ log[j].kind # "deleted" /\ log[j].bytes = "one"
        /\ EdgesOf(log[j].file) = Extract(log[j].file, "one").edges

KindRank(kind) ==
    IF kind = "deleted" THEN 1 ELSE IF kind = "created" THEN 2 ELSE 3

\* C6: within one batch all deletions are processed before all creations
\* and all creations before all modifications, and batches are applied in
\* the order in which they were formed.
BatchOrderRespected ==
    \A i, j \in 1..Len(log) :
        i < j =>
            /\ log[i].batch <= log[j].batch
            /\ log[i].batch = log[j].batch => KindRank(log[i].kind) <= KindRank(log[j].kind)

\* A batch whose creation was queued before its deletion has been applied
\* after an earlier batch
BatchOrderRespectedWitness ==
    \E i, j \in 1..Len(log) :
        /\ i < j
        /\ log[i].batch = log[j].batch
        /\ log[i].kind = "deleted"
        /\ log[j].kind = "created"
        /\ log[i].gaps = <<QuiescenceDelay>>
        /\ log[j].gaps = <<QuiescenceDelay>>
        /\ log[j].first < log[i].first
        /\ log[1].batch < log[i].batch

AllEntries ==
    Range(pending) \cup UNION {Range(batches[i].entries) : i \in 1..Len(batches)}
        \cup {[file |-> log[i].file, kind |-> log[i].kind, gaps |-> log[i].gaps,
               first |-> log[i].first] : i \in 1..Len(log)}

\* C7: a save within the quiescence delay of the save before it is never
\* the first event of a batch entry, so one batch processes both, and once
\* the queues are empty the store holds the edges of the last content on
\* disk of every file whose content can be extracted.
SavesWithinDelayCoalesce ==
    /\ \A e \in AllEntries : e.gaps[1] >= QuiescenceDelay
    /\ (pending = <<>> /\ batches = <<>>) =>
          \A f \in StoreFiles :
              /\ fsContent[f] = Missing => EdgesOf(f) = {}
              /\ Extract(f, fsContent[f]).ok =>
                    EdgesOf(f) = Extract(f, fsContent[f]).edges

\* A file saved with two edges and saved again 100 ms later with one was
\* processed as one entry and the store holds the one edge
SavesWithinDelayCoalesceWitness ==
    \E i \in 1..Len(log) :
        /\ log[i].gaps = <<QuiescenceDelay, 1>>
        /\ log[i].bytes = "one"
        /\ pending = <<>> /\ batches = <<>>
        /\ \A j \in 1..Len(log) : j # i => log[j].file # log[i].file
        /\ EdgesOf(log[i].file) = Extract(log[i].file, "one").edges

(***************************************************************************)
(* Properties of find_related: the starting file                           *)
(***************************************************************************)
\* The file names and node ids the loaded graphs mention
KnownFiles ==
    UNION {{gs.nodes[i].file : i \in 1..Len(gs.nodes)} \cup NodeIds(gs) :
             gs \in Range(graphs)}

\* The starting path is no file or id of the graphs, nor the end or the
\* extension of one
UnknownToGraphs(file) ==
    \A k \in KnownFiles \ {NoFile} : ~EndsWith(k, file) /\ ~EndsWith(file, k)

\* C11: find_related called with a starting file that is not in the graph
\* returns an empty result.
UnknownFileYieldsEmpty ==
    (related # NotRun /\ UnknownToGraphs(related.targetFile)) =>
        related.value = <<>>

\* The files of the nodes the starting path names: equal to it, or one the
\* end of the other
StartFiles(r) ==
    {k \in KnownFiles \ {NoFile} :
        k = r.targetFile \/ EndsWith(k, r.targetFile) \/ EndsWith(r.targetFile, k)}

\* C12: find_related never returns the starting file itself, however the
\* starting file is named and whatever edges lead back to it (stated for a
\* starting path that names one file of the graph).
StartingFileNotReturned ==
    (related # NotRun /\ Cardinality(StartFiles(related)) = 1) =>
        \A i \in 1..Len(related.value) :
            related.value[i].path \notin StartFiles(related)

\* The loaded graph is that of a importing b: one edge, a -> b, an import
OneImportEdge ==
    /\ Len(graphs) = 1
    /\ Len(graphs[1].edges) = 1
    /\ graphs[1].edges[1].v = FileA
    /\ graphs[1].edges[1].w = FileB
    /\ graphs[1].edges[1].type \in {"import", "imports"}

\* C13: with the one import edge a -> b, find_related(a, depth 1) returns
\* exactly b at depth 1 with the forward import relationship, and
\* find_related(b, depth 1, include_reverse) returns exactly a at depth 1
\* tagged as the reverse of that relationship.
ImportEdgeFoundBothWays ==
    (/\ related # NotRun
     /\ related.initialized
     /\ OneImportEdge
     /\ related.options.depth = 1) =>
        /\ related.targetFile = FileA =>
              /\ Len(related.value) = 1
              /\ related.value[1].path = FileB
              /\ related.value[1].depth = 1
              /\ related.value[1].relationship[1] = "forward"
        /\ (related.targetFile = FileB /\ related.options.includeReverse) =>
              /\ Len(related.value) = 1
              /\ related.value[1].path = FileA
              /\ related.value[1].depth = 1
              /\ related.value[1].relationship[1] = "reverse"

(***************************************************************************)
(* Properties of hot_paths                                                 *)
(***************************************************************************)
HasEdge(g, v, w) == \E i \in 1..Len(g.edges) : g.edges[i].v = v /\ g.edges[i].w = w

\* The simple paths of two or three nodes along out-edges that start at a
\* node of total degree 3 or more
SimpleHotPaths(g) ==
    {p \in UNION {[1..n -> NodeIds(g)] : n \in 2..HotMaxLength} :
        /\ Degree(g, p[1]) >= 3
        /\ \A i, j \in 1..Len(p) : i # j => p[i] # p[j]
        /\ \A i \in 1..(Len(p) - 1) : HasEdge(g, p[i], p[i + 1])}

\* C14: hot_paths collects, for each node of total degree 3 or more, every
\* simple path of length 2 or more that a DFS of depth 3 along out-edges
\* finds, and returns the top limit of them by path length.
HotPathsTopByLength ==
    hotPaths # NotRun =>
        LET expected == SimpleHotPaths(graphs[1])
            got == {hotPaths.value[i].path : i \in 1..Len(hotPaths.value)}
        IN  /\ got \subseteq expected
            /\ Len(hotPaths.value) = Min(hotPaths.limit, Cardinality(expected))
            /\ Cardinality(got) = Len(hotPaths.value)
            /\ \A p \in got, q \in expected \ got : Len(p) >= Len(q)
            /\ \A i, j \in 1..Len(hotPaths.value) :
                  i < j => hotPaths.value[i].weight >= hotPaths.value[j].weight

(***************************************************************************)
(* Properties of detect_cycles: what is reported                           *)
(***************************************************************************)
\* The node list is a cycle of the graph: no node twice, every node has an
\* edge to the next and the last one to the first
IsCycleOf(g, nodes) ==
    /\ nodes # <<>>
    /\ \A i, j \in 1..Len(nodes) : i # j => nodes[i] # nodes[j]
    /\ \A i \in 1..Len(nodes) :
          <<nodes[i], nodes[(i % Len(nodes)) + 1]>> \in EdgePairs(g)

ThreeCycle == {<<<<"x">>, <<"y">>>>, <<<<"y">>, <<"z">>>>, <<<<"z">>, <<"x">>>>}

\* C15 as amended: every reported cycle is a cycle of its graph, in the
\* order the DFS walked it, and no cycle is reported twice (a cycle that
\* closes through a node the DFS has left is not reported); a graph that is
\* exactly
\* x -> y -> z -> x yields exactly one cycle, of x, y and z, starting at the
\* node the DFS entered first.
EachCycleReportedOnce ==
    cycles # NotRun =>
        /\ \A k \in 1..Len(cycles.value) :
              /\ IsCycleOf(graphs[cycles.value[k].language], cycles.value[k].nodes)
              /\ \A m \in 1..Len(cycles.value) :
                    (/\ m # k
                     /\ cycles.value[m].language = cycles.value[k].language)
                    => Range(cycles.value[m].nodes) # Range(cycles.value[k].nodes)
        /\ (Len(graphs) = 1 /\ EdgePairs(graphs[1]) = ThreeCycle) =>
              /\ Len(cycles.value) = 1
              /\ Range(cycles.value[1].nodes) = CycleIds
              /\ cycles.value[1].nodes[1] = graphs[1].nodes[1].id

\* The three-file cycle was reported, starting at z because the graph file
\* lists z first
EachCycleReportedOnceWitness ==
    /\ cycles # NotRun
    /\ Len(graphs) = 1
    /\ EdgePairs(graphs[1]) = ThreeCycle
    /\ cycles.value[1].nodes = <<<<"z">>, <<"x">>, <<"y">>>>

\* Two cycles through one node were reported, each once
TwoCyclesReported ==
    /\ cycles # NotRun
    /\ Len(graphs) = 1
    /\ Len(cycles.value) = 2
    /\ Range(cycles.value[1].nodes) \cap Range(cycles.value[2].nodes) # {}

\* The node sets of the cycles of a graph
CycleSets(g) ==
    {Range(p) : p \in {q \in UNION {[1..n -> NodeIds(g)] : n \in 1..Cardinality(NodeIds(g))} :
                         IsCycleOf(g, q)}}

\* The cycles that lie in no larger cycle
MaximalCycleSets(g) ==
    {c \in CycleSets(g) : \A d \in CycleSets(g) : c \subseteq d => c = d}

\* C15 as claimed: each maximal cycle of each graph is reported, exactly
\* once.
EachMaximalCycleReported ==
    cycles # NotRun =>
        \A i \in 1..Len(graphs) :
            \A c \in MaximalCycleSets(graphs[i]) :
                Cardinality({k \in 1..Len(cycles.value) :
                               /\ cycles.value[k].language = i
                               /\ Range(cycles.value[k].nodes) = c}) = 1

(***************************************************************************)
(* Properties of the clusterer: the small-project shortcut, the cluster    *)
(* count and the super-edges                                               *)
(***************************************************************************)
FileCount == Len(buildAdjacencyGraph(graphData).nodes)

\* C16: when the file count is below the small-project threshold,
\* generating the super-graph succeeds with every file as its own
\* single-member cluster; without edges the result has as many clusters as
\* files and no super-edge.
SmallProjectSucceeds ==
    (superGraph # NotRun /\ FileCount < options.smallProjectThreshold) =>
        /\ superGraph.status = "ok"
        /\ Len(superGraph.clusters) = FileCount
        /\ \A k \in 1..Len(superGraph.clusters) : Len(superGraph.clusters[k].files) = 1
        /\ graphData.edges = <<>> => superGraph.edges = <<>>

ClusterOfFile(f) ==
    LET at == {k \in 1..Len(superGraph.clusters) : f \in Range(superGraph.clusters[k].files)}
    IN  IF at = {} THEN NoCluster ELSE superGraph.clusters[CHOOSE k \in at : TRUE].id

\* The file-level edges that go from cluster a to cluster b, by position in
\* graphData.edges
CrossingEdges(a, b) ==
    {i \in 1..Len(graphData.edges) :
        /\ ClusterOfFile(graphData.edges[i].from) = a
        /\ ClusterOfFile(resolveEdgeTarget(graphData.edges[i].to,
                                           buildAdjacencyGraph(graphData).nodes)) = b}

ClusterIdsOf(sg) == {sg.clusters[k].id : k \in 1..Len(sg.clusters)}

CommandsAnswerWithTaggedResult ==
    commandResult # NotRun =>
        /\ ~commandResult.threw
        /\ commandResult.type \in {"success", "info", "warning", "error"}
        /\ commandResult.command \notin KnownCommands =>
              /\ commandResult.type = "error"
              /\ commandResult.message =
                    IF commandResult.initialized THEN "Unknown command"
                    ELSE "Graph system not available"

\* An initialized graph system has answered a command outside the switch
CommandsAnswerWithTaggedResultWitness ==
    /\ commandResult # NotRun
    /\ commandResult.command = "/invalid-command"
    /\ commandResult.initialized
    /\ commandResult.message = "Unknown command"

\* C20 as claimed: no call lets an exception escape, every result is a
\* success, an info or an error, and a command outside the switch is
\* answered with an error that says 'Unknown command'.
UnknownCommandAlwaysNamed ==
    commandResult # NotRun =>
        /\ ~commandResult.threw
        /\ commandResult.type \in {"success", "info", "error"}
        /\ commandResult.command \notin KnownCommands =>
              /\ commandResult.type = "error"
              /\ commandResult.message = "Unknown command"

\* C21: /gupdate sends the refresh signal when the daemon runs and --force
\* is not given, and runs a full rebuild when the daemon is stopped or
\* --force is given ("some", "failed": the daemon runs; "none", "empty": it
\* does not).
GraphUpdateRefreshesOrRebuilds ==
    (/\ commandResult # NotRun
     /\ commandResult.command = "/gupdate"
     /\ commandResult.initialized
     /\ commandResult.data # "throws") =>
        LET running == commandResult.data \in {"some", "failed"}
            force == \E i \in 1..Len(commandResult.args) :
                        commandResult.args[i] = "--force"
        IN  IF running /\ ~force
            THEN "refresh" \in commandResult.effects
            ELSE "rebuild" \in commandResult.effects

(***************************************************************************)
(* Properties of cluster shaping and community detection                   *)
(***************************************************************************)
Communities == detectCommunities(buildAdjacencyGraph(graphData))

Shaped ==
    /\ superGraph # NotRun
    /\ superGraph.status = "ok"
    /\ superGraph.strategy = "clustered"

\* C22: when community detection yields at most M communities, every
\* community of at least min_size members is a cluster of its own, and misc
\* lists members of smaller communities only.
LargeCommunitiesKept ==
    (/\ Shaped
     /\ Len(Communities)
          <= MaxClusters(TargetClusters(FileCount, options.targetReduction))) =>
        /\ \A c \in 1..Len(Communities) :
              Len(Communities[c].files) >= options.minClusterSize =>
                 \E k \in 1..Len(superGraph.clusters) :
                    /\ superGraph.clusters[k].id # MiscId
                    /\ superGraph.clusters[k].files = Communities[c].files
        /\ \A k \in 1..Len(superGraph.clusters) :
              superGraph.clusters[k].id = MiscId =>
                 \A f \in Range(superGraph.clusters[k].files) :
                    \E c \in 1..Len(Communities) :
                       /\ f \in Range(Communities[c].files)
                       /\ Len(Communities[c].files) < options.minClusterSize

\* C23: the community-detection loop ends; it makes at most maxIterations
\* full passes and none after a pass that moved no node.
DetectionTerminates ==
    /\ [](detect.pc \notin {"idle", "for"} =>
            /\ detect.iteration <= maxIterations
            /\ detect.still <= 1
            /\ detect.still = 1 => ~detect.improved)
    /\ <>(detect.pc = "done")

\* The loop has ended after passes that moved nodes and one that moved none
DetectionTerminatesWitness ==
    /\ detect.pc = "done"
    /\ detect.iteration >= 2
    /\ detect.still = 1

\* C24: when no node ever moves from the initial one-node-per-community
\* partition (a graph without edges, say), the clusters are those of the
\* directory fallback: files grouped by their first two path segments.
NoProgressFallsBackToDirectories ==
    (/\ Shaped
     /\ \A c \in 1..Len(Communities) : Len(Communities[c].files) = 1) =>
        superGraph.clusters = DirectoryClusters

(***************************************************************************)
(* Properties of batchProcess                                              *)
(***************************************************************************)
\* C25: at no time are more than `concurrency` processor invocations of a
\* batch in flight.
InFlightWithinConcurrency ==
    job.pc # "idle" => Cardinality(job.inFlight) <= job.concurrency

(***************************************************************************)
(* Properties of concurrent starts and of the stale-lock cleanup           *)
(***************************************************************************)
\* Two start commands under way, each of which had its answer from
\* isDaemonRunning before the daemon of the other had come to the lock;
\* their daemons are the only ones there have been
ConcurrentStarts(c, d) ==
    /\ c # d
    /\ clients[c].child # NoPid /\ clients[c].early
    /\ clients[d].child # NoPid /\ clients[d].early
    /\ {p \in Pids : procs[p].pc # "unborn"} = {clients[c].child, clients[d].child}

CleanupSparesLiveLock ==
    [][\A c \in Clients :
          (clients[c].pc = "unlink" /\ clients'[c].pc # "unlink" /\ lockFile # NoPid)
             => ~Alive(lockFile)]_vars

(***************************************************************************)
(* Property of find_related after a reload                                 *)
(***************************************************************************)
\* C28: after the graphs changed and were loaded again, the answer to a
\* query asked before the change is the one computed from the graphs the
\* service holds now, never the one cached before
ReloadedAnswerIsCurrent ==
    (related # NotRun /\ related.reloaded) =>
        related.value = toolFindRelatedFiles(TRUE, graphs, {},
                                             related.targetFile,
                                             related.options).value

(***************************************************************************)
(* Property of the tool interceptor                                        *)
(***************************************************************************)
\* C29: an intercepted Task, Grep or Read call invokes the original tool
\* function exactly once, whether the enhancement succeeded, was skipped or
\* failed
OriginalInvokedOnce ==
    intercepted # NotRun => intercepted.invocations = 1

(***************************************************************************)
(* Property of the todo monitor                                            *)
(***************************************************************************)
\* The ids of the changes handed to the bridge
ForwardedIds == {forwarded[k].id : k \in 1..Len(forwarded)}

\* No check is running, and a check that began after the last change of the
\* todos has ended
ChecksCaughtUp ==
    /\ \A c \in 1..MaxChecks : checks[c].pc = "idle"
    /\ monitor.checked = Written

====
